---- MODULE Spec2Model ----
(***************************************************************************)
(* Bowl Mania: the point-estimate and the Bayesian regression model        *)
(* (src/src/bowl_mania/models) as a state machine.  One model instance is  *)
(* constructed in Init; every public method is one action that runs the    *)
(* whole method and leaves its outcome (value or raised error) in `ret`;   *)
(* the single-threaded caller takes the outcome (Return) before the next   *)
(* call.                                                                   *)
(*                                                                         *)
(* Numbers are exact rationals <<n, d>> in lowest terms with d > 0.  The   *)
(* three non-finite floating-point values numpy produces on a division by  *)
(* zero are kept: <<1, 0>> is +inf, <<-1, 0>> is -inf, <<0, 0>> is NaN.     *)
(***************************************************************************)
EXTENDS Integers, Sequences, FiniteSets, TLC

\* ------------------------------------------------------------------ bounds

\* Rows of a feature table handed to predict / evaluate: 1..MaxRows.
MaxRows == 2
\* Betting-line spreads handed to predict_cover_probability: -MaxSpread..MaxSpread.
MaxSpread == 1
\* Entropy of the sampler's random stream: seeds 0..MaxSeed.
MaxSeed == 1

\* ------------------------------------------------------- exact arithmetic

Abs(x) == IF x < 0 THEN -x ELSE x

Sign(x) == IF x < 0 THEN -1 ELSE IF x > 0 THEN 1 ELSE 0

RECURSIVE GCD(_, _)
GCD(a, b) == IF b = 0 THEN a ELSE GCD(b, a % b)

\* The float n/d: lowest terms, d > 0; n/0 is +inf, -inf or NaN as in IEEE 754.
Q(n, d) ==
    IF d = 0 THEN <<Sign(n), 0>>
    ELSE LET g == GCD(Abs(n), Abs(d))
         IN  <<(Sign(d) * n) \div g, Abs(d) \div g>>

QInt(i) == <<i, 1>>

NaN == <<0, 0>>

IsFinite(a) == a[2] # 0

QAdd(a, b) == Q(a[1] * b[2] + b[1] * a[2], a[2] * b[2])

QSub(a, b) == Q(a[1] * b[2] - b[1] * a[2], a[2] * b[2])

QMul(a, b) == Q(a[1] * b[1], a[2] * b[2])

\* numpy's elementwise true division of finite floats: x/0 gives inf or NaN
\* (a RuntimeWarning, no exception).
QDiv(a, b) == Q(a[1] * b[2], a[2] * b[1])

QNeg(a) == <<-a[1], a[2]>>

QAbs(a) == <<Abs(a[1]), a[2]>>

\* Order of finite values.
QLt(a, b) == a[1] * b[2] < b[1] * a[2]

QLe(a, b) == a[1] * b[2] <= b[1] * a[2]

\* A computed vector held as stored values (an ndarray), not as a rule to
\* recompute on every access.
Array(s) == s \o <<>>

RECURSIVE QSumTo(_, _)
QSumTo(s, n) == IF n = 0 THEN QInt(0) ELSE QAdd(QSumTo(s, n - 1), s[n])

\* np.sum / np.mean of a vector of finite values.
QSum(s) == QSumTo(s, Len(s))

QMean(s) == QDiv(QSum(s), QInt(Len(s)))

\* Dot product of two vectors of equal length.
QDot(u, v) == QSum(Array([i \in 1..Len(u) |-> QMul(u[i], v[i])]))

IsSquareInt(n) == \E r \in 0..n : r * r = n

SqrtInt(n) == CHOOSE r \in 0..n : r * r = n

\* A value whose square root is rational.
IsSquare(a) == a[1] >= 0 /\ IsSquareInt(a[1]) /\ IsSquareInt(a[2])

\* np.sqrt on such a value.
QSqrt(a) == <<SqrtInt(a[1]), SqrtInt(a[2])>>

\* ------------------------------------------------------------- data frames

\* Optional[...]: None is <<>>, a present value v is <<v>>.
None == <<>>

Some(v) == <<v>>

\* A pandas DataFrame: its ordered column names and its rows of cells.
DataFrame(cols, rws) == [columns |-> cols, rows |-> rws]

NRows(X) == Len(X.rows)

NCols(X) == Len(X.columns)

\* X.values: the cells as a matrix of floats, column names dropped.
Values(X) == Array([i \in 1..NRows(X) |-> Array([j \in 1..NCols(X) |-> QInt(X.rows[i][j])])])

\* Column j of a matrix.
Column(A, j) == Array([i \in 1..Len(A) |-> A[i][j]])

\* A vector of ints as floats.
AsFloats(y) == Array([i \in 1..Len(y) |-> QInt(y[i])])

\* --------------------------------------------- sklearn.preprocessing.StandardScaler

\* StandardScaler(): nothing learned yet.
NewScaler == [fitted |-> FALSE, feature_names_in_ |-> <<>>, mean_ |-> <<>>, scale_ |-> <<>>]

\* Population variance of a column (np.var, ddof = 0).
Variance(col) ==
    LET m == QMean(col)
    IN  QMean(Array([i \in 1..Len(col) |-> QMul(QSub(col[i], m), QSub(col[i], m))]))

\* scale_ = sqrt(var_), and 1 for a constant column (sklearn's zero-scale rule).
ScaleOf(col) == IF Variance(col) = QInt(0) THEN QInt(1) ELSE QSqrt(Variance(col))

\* The tables whose standard deviations this exact arithmetic can hold.
Representable(X) == \A j \in 1..NCols(X) : IsSquare(Variance(Column(Values(X), j)))

\* scaler.fit(X) on a DataFrame: learns the column names, means and scales.
ScalerFit(X) ==
    [fitted           |-> TRUE,
     feature_names_in_ |-> X.columns,
     mean_            |-> Array([j \in 1..NCols(X) |-> QMean(Column(Values(X), j))]),
     scale_           |-> Array([j \in 1..NCols(X) |-> ScaleOf(Column(Values(X), j))])]

\* scaler.transform(X) validates the DataFrame against what fit saw: the
\* column names and their order, hence also the column count.
ScalerAccepts(sc, X) == sc.fitted /\ X.columns = sc.feature_names_in_

\* (x - mean_) / scale_, cell by cell; the result is a bare matrix.
ScalerTransform(sc, X) ==
    Array([i \in 1..NRows(X) |->
        Array([j \in 1..NCols(X) |-> QDiv(QSub(QInt(X.rows[i][j]), sc.mean_[j]), sc.scale_[j])])])

\* ------------------------------------------- sklearn.linear_model.LinearRegression

\* SKLinearRegression(): no coefficients yet.
NewEstimator == [fitted |-> FALSE, coef_ |-> <<>>, intercept_ |-> QInt(0), n_features_in_ |-> 0]

\* Entry (j, k) of the Gram matrix of the centred columns.
Gram(C, j, k) == QDot(C[j], C[k])

\* The minimum-norm least-squares solution for one or two centred columns C
\* against the centred target yc (scipy.linalg.lstsq): the normal equations
\* when the Gram matrix is regular, its pseudo-inverse otherwise.
LstSq(C, yc) ==
    IF Len(C) = 1
    THEN IF Gram(C, 1, 1) = QInt(0) THEN <<QInt(0)>>
         ELSE <<QDiv(QDot(C[1], yc), Gram(C, 1, 1))>>
    ELSE LET g11 == Gram(C, 1, 1)
             g12 == Gram(C, 1, 2)
             g22 == Gram(C, 2, 2)
             h1  == QDot(C[1], yc)
             h2  == QDot(C[2], yc)
             det == QSub(QMul(g11, g22), QMul(g12, g12))
             tr  == QAdd(g11, g22)
         IN  IF det # QInt(0)
             THEN <<QDiv(QSub(QMul(g22, h1), QMul(g12, h2)), det),
                    QDiv(QSub(QMul(g11, h2), QMul(g12, h1)), det)>>
             ELSE IF tr = QInt(0) THEN <<QInt(0), QInt(0)>>
             ELSE <<QDiv(QAdd(QMul(g11, h1), QMul(g12, h2)), QMul(tr, tr)),
                    QDiv(QAdd(QMul(g12, h1), QMul(g22, h2)), QMul(tr, tr))>>

\* estimator.fit(A, y) on a bare matrix A: ordinary least squares with an
\* intercept (centre, solve, intercept_ = mean(y) - mean(A) . coef_).
EstimatorFit(A, y) ==
    LET k    == Len(A[1])
        xbar == Array([j \in 1..k |-> QMean(Column(A, j))])
        ybar == QMean(y)
        C    == Array([j \in 1..k |-> Array([i \in 1..Len(A) |-> QSub(A[i][j], xbar[j])])])
        yc   == Array([i \in 1..Len(y) |-> QSub(y[i], ybar)])
        coef == LstSq(C, yc)
    IN  [fitted |-> TRUE, coef_ |-> coef,
         intercept_ |-> QSub(ybar, QDot(xbar, coef)), n_features_in_ |-> k]

\* estimator.predict(A) validates only the column count of a bare matrix.
EstimatorAccepts(est, A) == est.fitted /\ Len(A[1]) = est.n_features_in_

\* intercept_ + A . coef_, one value per row of A.
EstimatorPredict(est, A) ==
    Array([i \in 1..Len(A) |-> QAdd(est.intercept_, QDot(A[i], est.coef_))])

\* ------------------------------------------------------- scipy.stats.norm.cdf

\* The standard normal distribution function at 0.0, 0.1, ..., 4.0, in 1/10000.
PhiTable ==
    <<5000, 5398, 5793, 6179, 6554, 6915, 7257, 7580, 7881, 8159, 8413,
      8643, 8849, 9032, 9192, 9332, 9452, 9554, 9641, 9713, 9772,
      9821, 9861, 9893, 9918, 9938, 9953, 9965, 9974, 9981, 9987,
      9990, 9993, 9995, 9997, 9998, 9998, 9999, 9999, 10000, 10000>>

\* |z| in tenths, rounded up to the next tenth and capped at the table's end.
Tenths(z) ==
    LET t == (Abs(z[1]) * 10 + z[2] - 1) \div z[2]
    IN  IF t > 40 THEN 40 ELSE t

\* norm.cdf(z): NaN stays NaN, the infinities give 0 and 1, a finite z is
\* looked up (symmetric about 0).
NormCdf(z) ==
    IF z = NaN THEN NaN
    ELSE IF ~IsFinite(z) THEN (IF z[1] > 0 THEN QInt(1) ELSE QInt(0))
    ELSE IF z[1] >= 0 THEN Q(PhiTable[Tenths(z) + 1], 10000)
    ELSE Q(10000 - PhiTable[Tenths(z) + 1], 10000)

\* ------------------------------------------------------------------ inputs

\* Column lists of the tables a caller passes: the fitted order, the same
\* names in the other order, a single column, and an unknown name.
ColumnLists ==
    {<<"feature1", "feature2">>, <<"feature2", "feature1">>,
     <<"feature1">>, <<"feature1", "feature3">>}

\* Cell values of a table passed to predict / evaluate.
CellVals == {0, 1}

\* Every sequence over S of length n.
SeqsOf(S, n) == [1..n -> S]

\* The tables with the given columns and n rows.
TablesOf(cols, n) == {DataFrame(cols, r) : r \in SeqsOf(SeqsOf(CellVals, Len(cols)), n)}

\* Feature tables passed to predict, predict_cover_probability and evaluate.
PredictTables == UNION {TablesOf(c, n) : c \in ColumnLists, n \in 1..MaxRows}

\* Targets passed to evaluate with a table of n rows: alternating and constant.
TargetsOf(n) == {[i \in 1..n |-> i % 2], [i \in 1..n |-> 1]}

\* actual_spread arguments.
Spreads == (-MaxSpread)..MaxSpread

\* spread_std arguments: omitted, the documented default, and other floats.
SpreadStds == {None, Some(10), Some(2), Some(0), Some(-2)}

\* Training sets passed to fit and cross_validate: two regular designs with
\* the columns in either order, a single column with repeated values, a
\* constant column, and a target one entry longer than the table.
TrainSets ==
    {[X |-> DataFrame(<<"feature1", "feature2">>, <<<<0, 0>>, <<4, 0>>, <<0, 2>>, <<4, 2>>>>),
      y |-> <<0, 2, 1, 5>>],
     [X |-> DataFrame(<<"feature2", "feature1">>, <<<<0, 0>>, <<2, 0>>, <<0, 2>>, <<2, 2>>>>),
      y |-> <<1, 0, 3, 3>>],
     [X |-> DataFrame(<<"feature1">>, <<<<0>>, <<0>>, <<4>>, <<4>>>>),
      y |-> <<0, 2, 1, 5>>],
     [X |-> DataFrame(<<"feature1", "feature2">>, <<<<1, 0>>, <<1, 4>>>>),
      y |-> <<0, 2>>],
     [X |-> DataFrame(<<"feature1", "feature2">>, <<<<0, 1>>, <<2, 1>>>>),
      y |-> <<1, 2, 3>>]}

\* cv arguments of cross_validate.
Folds == {2}

\* --------------------------------------------------------------- the state

VARIABLES
    kind,           \* which class was constructed: "linear" or "bayesian"
    normalize,      \* LinearRegression.normalize
    hierarchical,   \* BayesianRegression.hierarchical
    feature_names,  \* self.feature_names: None or Some(column list)
    scaler,         \* self.scaler: None or Some(StandardScaler)
    model,          \* self.model: the sklearn estimator / None or Some(pm.Model)
    trace,          \* self.trace: None or Some(posterior samples)
    group_var,      \* self.group_var: None or Some(group labels)
    is_fitted,      \* self.is_fitted
    ret,            \* the outcome of the call that just ran, until the caller takes it
    others,         \* the other model instances of the program, each a record of its attributes
    trained_on,     \* history: None or Some(X, y) of the last fit call that completed
    API_KEY,        \* cfbd_api.API_KEY, read from the environment at import
    sent,           \* the requests the pending call issued to the data service, in order,
                    \* each with the reply it drew
    cache_dir       \* the files of CFBDClient.cache_dir: file name -> CSV text

vars == <<kind, normalize, hierarchical, feature_names, scaler, model, trace,
          group_var, is_fitted, ret, others, trained_on, API_KEY, sent, cache_dir>>

\* What lies outside the model classes: the data layer's configuration,
\* its traffic and its cache files.
outside == <<API_KEY, sent, cache_dir>>

\* No key is configured, nothing was requested and nothing is cached.
NoData == API_KEY = "" /\ sent = <<>> /\ cache_dir = <<>>

\* What fit learns and the gate that guards it.
fitted_state == <<feature_names, scaler, model, trace, group_var, is_fitted>>

config == <<kind, normalize, hierarchical>>

\* A method returned v.
Ok(v) == [status |-> "ok", err |-> "", value |-> Some(v)]

\* A method raised e; nothing is returned.
Raise(e) == [status |-> "error", err |-> e, value |-> None]

\* The outcome `out` of method `op` called with `args`.
Call(op, args, out) ==
    [op |-> op, args |-> args, status |-> out.status, err |-> out.err, value |-> out.value]

\* No call is pending.
Idle == [op |-> "none", args |-> <<>>, status |-> "ok", err |-> "", value |-> None]

\* Single-threaded: a call on the constructed class starts only when none
\* is pending.
Callable(k) == ret = Idle /\ kind = k

\* The errors the two classes raise themselves.
NotFittedPredict == "ValueError: Model must be fitted before prediction"

NotFittedFirst == "ValueError: Model must be fitted first"

\* The errors the libraries raise.
FeatureNamesError == "ValueError: The feature names should match those that were passed during fit"

FeatureCountError == "ValueError: X has a different number of features than the estimator expects"

SampleCountError == "ValueError: Found input variables with inconsistent numbers of samples"

LengthError == "ValueError: All arrays must be of the same length"

SplitError == "ValueError: Cannot have number of splits greater than the number of samples"

\* ------------------------------------------------- LinearRegression (class)

\* The attributes of the instance the calls go to, as one record.
Attributes ==
    [kind |-> kind, normalize |-> normalize, hierarchical |-> hierarchical,
     feature_names |-> feature_names, scaler |-> scaler, model |-> model, trace |-> trace,
     group_var |-> group_var, is_fitted |-> is_fitted, trained_on |-> trained_on]

\* The instance the calls go to is o.
Holds(o) ==
    /\ kind = o.kind
    /\ normalize = o.normalize
    /\ hierarchical = o.hierarchical
    /\ feature_names = o.feature_names
    /\ scaler = o.scaler
    /\ model = o.model
    /\ trace = o.trace
    /\ group_var = o.group_var
    /\ is_fitted = o.is_fitted
    /\ trained_on = o.trained_on

\* The instance LinearRegression(normalize=n) constructs: an estimator and a
\* scaler of its own.
LinearRegression_new(n) ==
    [kind |-> "linear", normalize |-> n, hierarchical |-> FALSE,
     feature_names |-> None, scaler |-> IF n THEN Some(NewScaler) ELSE None,
     model |-> NewEstimator, trace |-> None, group_var |-> None, is_fitted |-> FALSE,
     trained_on |-> None]

\* LinearRegression.__init__(normalize).
LinearRegression_init(n) == Holds(LinearRegression_new(n)) /\ ret = Idle

\* LinearPredict without the is_fitted gate: the libraries' own checks are
\* all that is left.
LinearPredict_ungated(X) ==
    IF normalize /\ ~ScalerAccepts(scaler[1], X) THEN Raise(FeatureNamesError)
    ELSE LET X_scaled == IF normalize THEN ScalerTransform(scaler[1], X) ELSE Values(X)
         IN  IF ~EstimatorAccepts(model, X_scaled) THEN Raise(FeatureCountError)
             ELSE Ok(EstimatorPredict(model, X_scaled))

\* The body of LinearRegression.predict(X) from the current state: the
\* is_fitted gate, the scaler's transform (or X.values) and the estimator.
LinearPredict(X) ==
    IF ~is_fitted THEN Raise(NotFittedPredict)
    ELSE IF normalize /\ ~ScalerAccepts(scaler[1], X) THEN Raise(FeatureNamesError)
    ELSE LET X_scaled == IF normalize THEN ScalerTransform(scaler[1], X) ELSE Values(X)
         IN  IF ~EstimatorAccepts(model, X_scaled) THEN Raise(FeatureCountError)
             ELSE Ok(EstimatorPredict(model, X_scaled))

\* LinearRegression_fit that never sets is_fitted.
LinearRegression_fit_unset(X, y) ==
    /\ Callable("linear")
    /\ normalize => Representable(X)
    /\ feature_names' = Some(X.columns)
    /\ scaler' = (IF normalize THEN Some(ScalerFit(X)) ELSE scaler)
    /\ LET X_scaled == IF normalize THEN ScalerTransform(ScalerFit(X), X) ELSE Values(X)
       IN  IF Len(y) # NRows(X)
           THEN /\ UNCHANGED <<model, is_fitted, trained_on>>
                /\ ret' = Call("fit", [X |-> X, y |-> y], Raise(SampleCountError))
           ELSE /\ model' = EstimatorFit(X_scaled, AsFloats(y))
                /\ UNCHANGED is_fitted
                /\ trained_on' = Some([X |-> X, y |-> y])
                /\ ret' = Call("fit", [X |-> X, y |-> y], Ok("self"))
    /\ UNCHANGED <<config, outside, others, trace, group_var>>

\* LinearRegression_fit with feature_names kept on the class, so that every
\* instance sees the value written last.
LinearRegression_fit_class_attribute(X, y) ==
    /\ Callable("linear")
    /\ normalize => Representable(X)
    /\ feature_names' = Some(X.columns)
    /\ others' = [i \in DOMAIN others |-> [others[i] EXCEPT !.feature_names = Some(X.columns)]]
    /\ scaler' = (IF normalize THEN Some(ScalerFit(X)) ELSE scaler)
    /\ LET X_scaled == IF normalize THEN ScalerTransform(ScalerFit(X), X) ELSE Values(X)
       IN  IF Len(y) # NRows(X)
           THEN /\ UNCHANGED <<model, is_fitted, trained_on>>
                /\ ret' = Call("fit", [X |-> X, y |-> y], Raise(SampleCountError))
           ELSE /\ model' = EstimatorFit(X_scaled, AsFloats(y))
                /\ is_fitted' = TRUE
                /\ trained_on' = Some([X |-> X, y |-> y])
                /\ ret' = Call("fit", [X |-> X, y |-> y], Ok("self"))
    /\ UNCHANGED <<config, outside, trace, group_var>>

\* LinearRegression.fit(X, y).  feature_names and the scaler are written
\* before the estimator validates y, so a rejected y leaves them changed.
LinearRegression_fit(X, y) ==
    /\ Callable("linear")
    /\ normalize => Representable(X)
    /\ feature_names' = Some(X.columns)
    /\ scaler' = (IF normalize THEN Some(ScalerFit(X)) ELSE scaler)
    /\ LET X_scaled == IF normalize THEN ScalerTransform(ScalerFit(X), X) ELSE Values(X)
       IN  IF Len(y) # NRows(X)
           THEN /\ UNCHANGED <<model, is_fitted, trained_on>>
                /\ ret' = Call("fit", [X |-> X, y |-> y], Raise(SampleCountError))
           ELSE /\ model' = EstimatorFit(X_scaled, AsFloats(y))
                /\ is_fitted' = TRUE
                /\ trained_on' = Some([X |-> X, y |-> y])
                /\ ret' = Call("fit", [X |-> X, y |-> y], Ok("self"))
    /\ UNCHANGED <<config, outside, others, trace, group_var>>

\* LinearRegression_predict that standardizes with fit_transform, as
\* cross_validate does, instead of transform.
LinearRegression_predict_refit(X) ==
    /\ Callable("linear")
    /\ normalize => Representable(X)
    /\ scaler' = (IF normalize /\ is_fitted THEN Some(ScalerFit(X)) ELSE scaler)
    /\ ret' = Call("predict", [X |-> X], LinearPredict(X))
    /\ UNCHANGED <<config, outside, others, trained_on, feature_names, model, trace, group_var, is_fitted>>

\* LinearRegression_predict that keeps the first row's prediction only.
LinearRegression_predict_first_row(X) ==
    /\ Callable("linear")
    /\ LET out == LinearPredict(X)
       IN  ret' = Call("predict", [X |-> X],
                       IF out.status = "ok" THEN Ok(<<out.value[1][1]>>) ELSE out)
    /\ UNCHANGED <<config, outside, others, trained_on, fitted_state>>

\* LinearRegression.predict(X).
LinearRegression_predict(X) ==
    /\ Callable("linear")
    /\ ret' = Call("predict", [X |-> X], LinearPredict(X))
    /\ UNCHANGED <<config, outside, others, trained_on, fitted_state>>

\* The default of spread_std.
DefaultSpreadStd == 10

\* CoverProbability with the difference taken the other way round.
CoverProbability_reversed(p, actual_spread, spread_std) ==
    LET std == IF spread_std = None THEN DefaultSpreadStd ELSE spread_std[1]
    IN  Array([i \in 1..Len(p) |-> NormCdf(QDiv(QSub(QInt(actual_spread), p[i]), QInt(std)))])

\* The cover probabilities of predictions p: norm.cdf((p - actual_spread) / spread_std).
CoverProbability(p, actual_spread, spread_std) ==
    LET std == IF spread_std = None THEN DefaultSpreadStd ELSE spread_std[1]
    IN  Array([i \in 1..Len(p) |-> NormCdf(QDiv(QSub(p[i], QInt(actual_spread)), QInt(std)))])

\* LinearRegression.predict_cover_probability(X, actual_spread, spread_std).
LinearRegression_predict_cover_probability(X, actual_spread, spread_std) ==
    /\ Callable("linear")
    /\ LET p == LinearPredict(X)
           args == [X |-> X, actual_spread |-> actual_spread, spread_std |-> spread_std]
       IN  ret' = Call("predict_cover_probability", args,
                       IF p.status = "error" THEN p
                       ELSE Ok(CoverProbability(p.value[1], actual_spread, spread_std)))
    /\ UNCHANGED <<config, outside, others, trained_on, fitted_state>>

\* sklearn's r2_score behind estimator.score: undefined (NaN) for fewer than
\* two samples; for a constant target 1 on a perfect fit and 0 otherwise.
R2Score(y, p) ==
    LET ybar   == QMean(y)
        ss_res == QSum(Array([i \in 1..Len(y) |-> QMul(QSub(y[i], p[i]), QSub(y[i], p[i]))]))
        ss_tot == QSum(Array([i \in 1..Len(y) |-> QMul(QSub(y[i], ybar), QSub(y[i], ybar))]))
    IN  IF Len(y) < 2 THEN NaN
        ELSE IF ss_tot = QInt(0) THEN (IF ss_res = QInt(0) THEN QInt(1) ELSE QInt(0))
        ELSE QSub(QInt(1), QDiv(ss_res, ss_tot))

\* The metrics evaluate derives from the residuals y - p.  rmse and
\* residual_std are the square roots of the mse and residual_var held here.
ResidualMetrics(y, p) ==
    LET res == Array([i \in 1..Len(y) |-> QSub(y[i], p[i])])
    IN  [mse          |-> QMean(Array([i \in 1..Len(res) |-> QMul(res[i], res[i])])),
         mae          |-> QMean(Array([i \in 1..Len(res) |-> QAbs(res[i])])),
         residual_var |-> Variance(res)]

\* LinearRegression.evaluate(X, y), y as long as X.
LinearRegression_evaluate(X, y) ==
    /\ Callable("linear")
    /\ Len(y) = NRows(X)
    /\ LET p == LinearPredict(X)
       IN  ret' = Call("evaluate", [X |-> X, y |-> y],
                       IF p.status = "error" THEN p
                       ELSE LET m == ResidualMetrics(AsFloats(y), p.value[1])
                            IN  Ok([mse |-> m.mse, mae |-> m.mae,
                                    r2 |-> R2Score(AsFloats(y), p.value[1]),
                                    residual_var |-> m.residual_var]))
    /\ UNCHANGED <<config, outside, others, trained_on, fitted_state>>

\* One row of the importance table per name in feature_names.
ImportanceRows(names, coef) ==
    Array([j \in 1..Len(names) |->
        [feature |-> names[j], coefficient |-> coef[j], abs_coefficient |-> QAbs(coef[j])]])

\* r put into the descending table s behind every row at least as large.
RECURSIVE InsertDesc(_, _)
InsertDesc(r, s) ==
    IF s = <<>> THEN <<r>>
    ELSE IF QLe(r.abs_coefficient, Head(s).abs_coefficient)
         THEN <<Head(s)>> \o InsertDesc(r, Tail(s))
         ELSE <<r>> \o s

\* sort_values('abs_coefficient', ascending=False): descending, ties in
\* their original order.
RECURSIVE SortDescTo(_, _)
SortDescTo(rws, n) == IF n = 0 THEN <<>> ELSE InsertDesc(rws[n], SortDescTo(rws, n - 1))

SortDesc(rws) == SortDescTo(rws, Len(rws))

\* get_feature_importance gated on feature_names instead of is_fitted.
LinearRegression_get_feature_importance_by_names ==
    /\ Callable("linear")
    /\ ret' = Call("get_feature_importance", <<>>,
                   IF feature_names = None THEN Raise(NotFittedFirst)
                   ELSE IF Len(feature_names[1]) # Len(model.coef_) THEN Raise(LengthError)
                   ELSE Ok(SortDesc(ImportanceRows(feature_names[1], model.coef_))))
    /\ UNCHANGED <<config, outside, others, trained_on, fitted_state>>

\* LinearRegression.get_feature_importance().
LinearRegression_get_feature_importance ==
    /\ Callable("linear")
    /\ ret' = Call("get_feature_importance", <<>>,
                   IF ~is_fitted THEN Raise(NotFittedFirst)
                   ELSE IF Len(feature_names[1]) # Len(model.coef_) THEN Raise(LengthError)
                   ELSE Ok(SortDesc(ImportanceRows(feature_names[1], model.coef_))))
    /\ UNCHANGED <<config, outside, others, trained_on, fitted_state>>

\* KFold(cv) without shuffling: fold f of n samples tests a contiguous block.
FoldSize(n, cv, f) == (n \div cv) + (IF f <= n % cv THEN 1 ELSE 0)

FoldStart(n, cv, f) == (f - 1) * (n \div cv) + (IF f - 1 <= n % cv THEN f - 1 ELSE n % cv)

TestIndex(n, cv, f) == Array([i \in 1..FoldSize(n, cv, f) |-> FoldStart(n, cv, f) + i])

TrainIndex(n, cv, f) ==
    Array([i \in 1..(n - FoldSize(n, cv, f)) |->
        IF i <= FoldStart(n, cv, f) THEN i ELSE i + FoldSize(n, cv, f)])

Take(s, idx) == Array([i \in 1..Len(idx) |-> s[idx[i]]])

\* The mean squared error of a fresh estimator (cross_val_score clones
\* self.model) fitted on fold f's training rows, on its test rows.
FoldMSE(A, y, cv, f) ==
    LET n   == Len(A)
        est == EstimatorFit(Take(A, TrainIndex(n, cv, f)), Take(y, TrainIndex(n, cv, f)))
        p   == EstimatorPredict(est, Take(A, TestIndex(n, cv, f)))
    IN  ResidualMetrics(Take(y, TestIndex(n, cv, f)), p).mse

\* np.sqrt(q), kept as the root of its radicand: the root of a negative
\* number is NaN, every other root is a number >= 0.
NpSqrt(q) == [radicand |-> q]

\* cross_validate taking the root of the (negative) mean score itself.
LinearRegression_cross_validate_unnegated(X, y, cv) ==
    /\ Callable("linear")
    /\ normalize => Representable(X)
    /\ scaler' = (IF normalize THEN Some(ScalerFit(X)) ELSE scaler)
    /\ LET X_scaled == IF normalize THEN ScalerTransform(ScalerFit(X), X) ELSE Values(X)
           args     == [X |-> X, y |-> y, cv |-> cv]
           scores   == Array([f \in 1..cv |-> QNeg(FoldMSE(X_scaled, AsFloats(y), cv, f))])
       IN  ret' = Call("cross_validate", args,
                       IF Len(y) # NRows(X) THEN Raise(SampleCountError)
                       ELSE IF cv > NRows(X) THEN Raise(SplitError)
                       ELSE Ok([mean_mse |-> QNeg(QMean(scores)),
                                std_mse  |-> NpSqrt(Variance(scores)),
                                rmse     |-> NpSqrt(QMean(scores))]))
    /\ UNCHANGED <<config, outside, others, trained_on, feature_names, model, trace, group_var, is_fitted>>

\* LinearRegression.cross_validate(X, y, cv).  The instance's own scaler is
\* fitted on X (fit_transform) before the folds are scored; the estimator
\* is cloned, not written.  scores are the negated fold errors.
LinearRegression_cross_validate(X, y, cv) ==
    /\ Callable("linear")
    /\ normalize => Representable(X)
    /\ scaler' = (IF normalize THEN Some(ScalerFit(X)) ELSE scaler)
    /\ LET X_scaled == IF normalize THEN ScalerTransform(ScalerFit(X), X) ELSE Values(X)
           args     == [X |-> X, y |-> y, cv |-> cv]
           scores   == Array([f \in 1..cv |-> QNeg(FoldMSE(X_scaled, AsFloats(y), cv, f))])
       IN  ret' = Call("cross_validate", args,
                       IF Len(y) # NRows(X) THEN Raise(SampleCountError)
                       ELSE IF cv > NRows(X) THEN Raise(SplitError)
                       ELSE Ok([mean_mse |-> QNeg(QMean(scores)),
                                std_mse  |-> NpSqrt(Variance(scores)),
                                rmse     |-> NpSqrt(QNeg(QMean(scores)))]))
    /\ UNCHANGED <<config, outside, others, trained_on, feature_names, model, trace, group_var, is_fitted>>

\* ----------------------------------------------------- the sampler (PyMC)

\* Values the random stream yields.  A sampler call is a function of the
\* entropy it was seeded with; the entropy is the caller's nondeterminism.
Rand(seed, i) == ((seed * 5 + i * 3 + seed * i) % 3) - 1

Seeds == 0..MaxSeed

\* chains and draws arguments of fit.
ChainCounts == {1, 2}

DrawCounts == {2}

\* A missing label (None or NaN) in a group series.
NA == "<NA>"

\* pd.factorize(group): the distinct labels in order of first appearance,
\* missing labels left out ...
RECURSIVE UniquesTo(_, _)
UniquesTo(labels, n) ==
    IF n = 0 THEN <<>>
    ELSE LET u == UniquesTo(labels, n - 1)
         IN  IF labels[n] = NA \/ \E k \in 1..Len(u) : u[k] = labels[n]
             THEN u ELSE Append(u, labels[n])

Uniques(labels) == UniquesTo(labels, Len(labels))

\* ... and each row's code: the 0-based position of its label among them,
\* and the sentinel -1 for a missing label.
Factorize(labels) ==
    LET u == Uniques(labels)
    IN  Array([i \in 1..Len(labels) |->
            IF labels[i] = NA THEN -1 ELSE (CHOOSE k \in 1..Len(u) : u[k] = labels[i]) - 1])

\* build_simple_model as a group-indexed graph with a single group.
build_simple_model_grouped(X, y) ==
    [topology |-> "hierarchical", X |-> X.rows, y |-> y, n_features |-> NCols(X),
     group_idx |-> Array([i \in 1..NRows(X) |-> 0]), n_groups |-> 1]

\* BayesianRegression.build_simple_model(X, y): one intercept alpha, one
\* coefficient vector beta; X.values and y.values are constants of the graph.
build_simple_model(X, y) ==
    [topology |-> "simple", X |-> X.rows, y |-> y, n_features |-> NCols(X),
     group_idx |-> <<>>, n_groups |-> 0]

\* BayesianRegression.build_hierarchical_model(X, y, group): alpha and beta
\* indexed by the factorized group of each row.
build_hierarchical_model(X, y, group) ==
    [topology |-> "hierarchical", X |-> X.rows, y |-> y, n_features |-> NCols(X),
     group_idx |-> Factorize(group), n_groups |-> Len(Uniques(group))]

\* Parameters per posterior draw: alpha and beta, per group when hierarchical.
Stride(m) == IF m.topology = "simple" THEN 1 + m.n_features ELSE m.n_groups * (1 + m.n_features)

\* pm.sample(draws, tune, chains, return_inferencedata=True) in model m:
\* per chain and draw one value of alpha and of beta.
Sample(m, chains, draws, seed) ==
    LET base(c, d) == ((c - 1) * draws + (d - 1)) * Stride(m)
    IN  [topology |-> m.topology, n_features |-> m.n_features, n_groups |-> m.n_groups,
         chains |-> chains, draws |-> draws,
         alpha |-> Array([c \in 1..chains |-> Array([d \in 1..draws |->
                     IF m.topology = "simple" THEN Rand(seed, base(c, d))
                     ELSE Array([g \in 1..m.n_groups |-> Rand(seed, base(c, d) + g - 1)])])]),
         beta  |-> Array([c \in 1..chains |-> Array([d \in 1..draws |->
                     IF m.topology = "simple"
                     THEN Array([j \in 1..m.n_features |-> Rand(seed, base(c, d) + j)])
                     ELSE Array([g \in 1..m.n_groups |-> Array([j \in 1..m.n_features |->
                             Rand(seed, base(c, d) + m.n_groups + (g - 1) * m.n_features + j - 1)])])])])]

RECURSIVE SumTo(_, _)
SumTo(s, n) == IF n = 0 THEN 0 ELSE SumTo(s, n - 1) + s[n]

\* Sum of a vector of integers.
Sum(s) == SumTo(s, Len(s))

\* The expected value of row r of the model's own X under draw (c, d); a
\* negative group index counts from the last group.
Mu(m, t, c, d, r) ==
    IF m.topology = "simple"
    THEN t.alpha[c][d] + Sum(Array([j \in 1..m.n_features |-> m.X[r][j] * t.beta[c][d][j]]))
    ELSE LET g == IF m.group_idx[r] < 0 THEN m.n_groups + m.group_idx[r] + 1
                  ELSE m.group_idx[r] + 1
         IN  t.alpha[c][d][g] +
             Sum(Array([j \in 1..m.n_features |-> m.X[r][j] * t.beta[c][d][g][j]]))

\* The posterior fits the graph it is replayed in.
TraceFits(m, t) ==
    t.topology = m.topology /\ t.n_features = m.n_features /\ t.n_groups = m.n_groups

\* pm.sample_posterior_predictive(trace, var_names=['y_obs']) in model m:
\* per chain and draw, one y_obs per row of the X the model was built on.
SamplePosteriorPredictive(m, t, seed) ==
    Array([c \in 1..t.chains |-> Array([d \in 1..t.draws |-> Array([r \in 1..Len(m.X) |->
        Mu(m, t, c, d, r) + Rand(seed, ((c - 1) * t.draws + (d - 1)) * Len(m.X) + r)])])])

ShapeError == "ValueError: shape mismatch replaying the posterior in the model"

BroadcastError == "ValueError: operands could not be broadcast together"

\* ------------------------------------------------ BayesianRegression (class)

\* Training sets with their group labels.
BayesTrainSets ==
    {[X |-> DataFrame(<<"feature1", "feature2">>, <<<<0, 1>>, <<1, 0>>, <<1, 1>>>>),
      y |-> <<0, 1, 2>>, group |-> Some(<<"SEC", "B1G", "SEC">>)],
     [X |-> DataFrame(<<"feature1">>, <<<<0>>, <<1>>>>),
      y |-> <<1, 0>>, group |-> None],
     [X |-> DataFrame(<<"feature1", "feature2">>, <<<<1, 1>>, <<0, 1>>>>),
      y |-> <<1, 0, 1>>, group |-> None]}

\* Tables passed to the Bayesian predict, predict_cover_probability, evaluate.
BayesTables ==
    UNION {TablesOf(c, n) : c \in {<<"feature1", "feature2">>, <<"feature1">>}, n \in 1..MaxRows}

\* group arguments passed with a table of n rows.
GroupsOf(n) == {None, Some([i \in 1..n |-> "SEC"])}

\* The instance BayesianRegression(hierarchical=h) constructs.
BayesianRegression_new(h) ==
    [kind |-> "bayesian", normalize |-> FALSE, hierarchical |-> h,
     feature_names |-> None, scaler |-> None, model |-> None, trace |-> None,
     group_var |-> None, is_fitted |-> FALSE, trained_on |-> None]

\* BayesianRegression.__init__(hierarchical).
BayesianRegression_init(h) == Holds(BayesianRegression_new(h)) /\ ret = Idle

\* BayesianRegression.fit(X, y, group, draws, tune, chains).  A target that
\* does not match X is rejected either while the graph is built (self.model
\* not yet assigned) or by the sampler (self.model assigned): at_build.
BayesianRegression_fit(X, y, group, draws, chains, seed, at_build) ==
    /\ Callable("bayesian")
    /\ feature_names' = Some(X.columns)
    /\ group_var' = (IF hierarchical /\ group # None THEN group ELSE group_var)
    /\ LET built == IF hierarchical /\ group # None
                    THEN build_hierarchical_model(X, y, group[1])
                    ELSE build_simple_model(X, y)
           args  == [X |-> X, y |-> y, group |-> group, draws |-> draws, chains |-> chains,
                     seed |-> seed]
       IN  IF Len(y) # NRows(X)
           THEN /\ model' = (IF at_build THEN model ELSE Some(built))
                /\ UNCHANGED <<trace, is_fitted, trained_on>>
                /\ ret' = Call("fit", args, Raise(ShapeError))
           ELSE /\ at_build = FALSE
                /\ model' = Some(built)
                /\ trace' = Some(Sample(built, chains, draws, seed))
                /\ is_fitted' = TRUE
                /\ trained_on' = Some([X |-> X, y |-> y])
                /\ ret' = Call("fit", args, Ok("self"))
    /\ UNCHANGED <<config, outside, others, scaler>>

\* np.mean over the first two axes (axis=(0, 1)) of an integer array a of
\* shape chains x draws x rows, at row r.
MeanOverDraws(a, r) ==
    QDiv(QInt(Sum(Array([c \in 1..Len(a) |-> Sum(Array([d \in 1..Len(a[c]) |-> a[c][d][r]]))]))),
         QInt(Len(a) * Len(a[1])))

\* The body of BayesianRegression.predict(X, group, return_samples) from the
\* current state.  Neither X nor the factorized group enters the sampling
\* call: the samples are y_obs of the graph self.model was built with.
BayesianPredict(X, group, return_samples, seed) ==
    IF ~is_fitted THEN Raise(NotFittedPredict)
    ELSE IF ~TraceFits(model[1], trace[1]) THEN Raise(ShapeError)
    ELSE LET predictions == SamplePosteriorPredictive(model[1], trace[1], seed)
         IN  IF return_samples THEN Ok(predictions)
             ELSE Ok(Array([r \in 1..Len(predictions[1][1]) |-> MeanOverDraws(predictions, r)]))

\* BayesianRegression.predict(X, group, return_samples).
BayesianRegression_predict(X, group, return_samples, seed) ==
    /\ Callable("bayesian")
    /\ ret' = Call("predict",
                   [X |-> X, group |-> group, return_samples |-> return_samples, seed |-> seed],
                   BayesianPredict(X, group, return_samples, seed))
    /\ UNCHANGED <<config, outside, others, trained_on, fitted_state>>

\* Exceeds counting a sample equal to the spread as well.
Exceeds_or_equal(samples, actual_spread) ==
    Array([c \in 1..Len(samples) |-> Array([d \in 1..Len(samples[c]) |->
        Array([r \in 1..Len(samples[c][d]) |-> IF samples[c][d][r] >= actual_spread THEN 1 ELSE 0])])])

\* samples > actual_spread, elementwise, as 0 / 1.
Exceeds(samples, actual_spread) ==
    Array([c \in 1..Len(samples) |-> Array([d \in 1..Len(samples[c]) |->
        Array([r \in 1..Len(samples[c][d]) |-> IF samples[c][d][r] > actual_spread THEN 1 ELSE 0])])])

\* (samples > actual_spread).mean(axis=(0, 1)).
CoverShare(samples, actual_spread) ==
    Array([r \in 1..Len(samples[1][1]) |-> MeanOverDraws(Exceeds(samples, actual_spread), r)])

\* BayesianRegression.predict_cover_probability(X, actual_spread, group).
BayesianRegression_predict_cover_probability(X, actual_spread, group, seed) ==
    /\ Callable("bayesian")
    /\ LET s == BayesianPredict(X, group, TRUE, seed)
           args == [X |-> X, actual_spread |-> actual_spread, group |-> group, seed |-> seed]
       IN  ret' = Call("predict_cover_probability", args,
                       IF s.status = "error" THEN s
                       ELSE Ok(CoverShare(s.value[1], actual_spread)))
    /\ UNCHANGED <<config, outside, others, trained_on, fitted_state>>

\* y.values - predictions under numpy broadcasting: equal lengths, or one
\* of the two of length 1.
Broadcasts(n, m) == n = m \/ n = 1 \/ m = 1

BroadcastTo(v, n) == IF Len(v) = n THEN v ELSE Array([i \in 1..n |-> v[1]])

\* BayesianRegression.evaluate(X, y, group), y as long as X.
BayesianRegression_evaluate(X, y, group, seed) ==
    /\ Callable("bayesian")
    /\ Len(y) = NRows(X)
    /\ LET p == BayesianPredict(X, group, FALSE, seed)
           n == IF Len(y) > Len(p.value[1]) THEN Len(y) ELSE Len(p.value[1])
       IN  ret' = Call("evaluate", [X |-> X, y |-> y, group |-> group, seed |-> seed],
                       IF p.status = "error" THEN p
                       ELSE IF ~Broadcasts(Len(y), Len(p.value[1])) THEN Raise(BroadcastError)
                       ELSE LET m == ResidualMetrics(BroadcastTo(AsFloats(y), n),
                                                     BroadcastTo(p.value[1], n))
                            IN  Ok([mse |-> m.mse, mae |-> m.mae,
                                    residual_var |-> m.residual_var]))
    /\ UNCHANGED <<config, outside, others, trained_on, fitted_state>>

\* The parameters of draw (c, d) as one vector: alpha, then beta.
FlatDraw(t, c, d) ==
    IF t.topology = "simple" THEN <<t.alpha[c][d]>> \o t.beta[c][d]
    ELSE t.alpha[c][d] \o
         Array([i \in 1..(t.n_groups * t.n_features) |->
            t.beta[c][d][((i - 1) \div t.n_features) + 1][((i - 1) % t.n_features) + 1]])

\* az.summary(trace): one row per parameter; of its statistics the
\* posterior mean is held.
Summary(t) ==
    LET flat == Array([c \in 1..t.chains |-> Array([d \in 1..t.draws |-> FlatDraw(t, c, d)])])
    IN  Array([k \in 1..Len(flat[1][1]) |-> MeanOverDraws(flat, k)])

\* BayesianRegression.get_summary().
BayesianRegression_get_summary ==
    /\ Callable("bayesian")
    /\ ret' = Call("get_summary", <<>>,
                   IF ~is_fitted THEN Raise(NotFittedFirst) ELSE Ok(Summary(trace[1])))
    /\ UNCHANGED <<config, outside, others, trained_on, fitted_state>>

\* BayesianRegression.plot_trace(var_names): draws, returns None.
BayesianRegression_plot_trace ==
    /\ Callable("bayesian")
    /\ ret' = Call("plot_trace", <<>>,
                   IF ~is_fitted THEN Raise(NotFittedFirst) ELSE Ok("None"))
    /\ UNCHANGED <<config, outside, others, trained_on, fitted_state>>

\* BayesianRegression.plot_posterior(var_names): draws, returns None.
BayesianRegression_plot_posterior ==
    /\ Callable("bayesian")
    /\ ret' = Call("plot_posterior", <<>>,
                   IF ~is_fitted THEN Raise(NotFittedFirst) ELSE Ok("None"))
    /\ UNCHANGED <<config, outside, others, trained_on, fitted_state>>

\* ------------------------------------------------------- the specification

\* The caller takes the outcome of the call; the next call may start.
Return ==
    /\ ret # Idle
    /\ ret' = Idle
    /\ UNCHANGED <<config, outside, others, trained_on, fitted_state>>

\* One model instance is constructed.
Init ==
    /\ others = <<>>
    /\ NoData
    /\ \/ \E n \in BOOLEAN : LinearRegression_init(n)
       \/ \E h \in BOOLEAN : BayesianRegression_init(h)

Fit == Callable("linear") /\ \E d \in TrainSets : LinearRegression_fit(d.X, d.y)

\* The tables the training sets hold.
TrainTables == {d.X : d \in TrainSets}

Predict ==
    Callable("linear") /\ \E X \in PredictTables \cup TrainTables : LinearRegression_predict(X)

PredictCoverProbability ==
    Callable("linear") /\ \E X \in PredictTables, a \in Spreads, s \in SpreadStds :
        LinearRegression_predict_cover_probability(X, a, s)

CrossValidate ==
    Callable("linear") /\ \E d \in TrainSets, cv \in Folds :
        LinearRegression_cross_validate(d.X, d.y, cv)

GetFeatureImportance == Callable("linear") /\ LinearRegression_get_feature_importance

Evaluate ==
    Callable("linear") /\ \E X \in PredictTables : \E y \in TargetsOf(NRows(X)) :
        LinearRegression_evaluate(X, y)

BayesFit ==
    Callable("bayesian") /\ \E d \in BayesTrainSets, draws \in DrawCounts, chains \in ChainCounts,
                               seed \in Seeds, at_build \in BOOLEAN :
        BayesianRegression_fit(d.X, d.y, d.group, draws, chains, seed, at_build)

BayesPredict ==
    Callable("bayesian") /\ \E X \in BayesTables, seed \in Seeds, rs \in BOOLEAN :
        \E g \in GroupsOf(NRows(X)) : BayesianRegression_predict(X, g, rs, seed)

BayesPredictCoverProbability ==
    Callable("bayesian") /\ \E X \in BayesTables, a \in Spreads, seed \in Seeds :
        \E g \in GroupsOf(NRows(X)) : BayesianRegression_predict_cover_probability(X, a, g, seed)

BayesEvaluate ==
    Callable("bayesian") /\ \E X \in BayesTables, seed \in Seeds :
        \E y \in TargetsOf(NRows(X)), g \in GroupsOf(NRows(X)) :
            BayesianRegression_evaluate(X, y, g, seed)

BayesGetSummary == Callable("bayesian") /\ BayesianRegression_get_summary

BayesPlotTrace == Callable("bayesian") /\ BayesianRegression_plot_trace

BayesPlotPosterior == Callable("bayesian") /\ BayesianRegression_plot_posterior

Next ==
    \/ Fit
    \/ Predict
    \/ PredictCoverProbability
    \/ CrossValidate
    \/ GetFeatureImportance
    \/ Evaluate
    \/ BayesFit
    \/ BayesPredict
    \/ BayesPredictCoverProbability
    \/ BayesEvaluate
    \/ BayesGetSummary
    \/ BayesPlotTrace
    \/ BayesPlotPosterior
    \/ Return

Spec == Init /\ [][Next]_vars

\* --------------------------------------- specification of two model instances

\* The instance the calls go to becomes o.
Becomes(o) ==
    /\ kind' = o.kind
    /\ normalize' = o.normalize
    /\ hierarchical' = o.hierarchical
    /\ feature_names' = o.feature_names
    /\ scaler' = o.scaler
    /\ model' = o.model
    /\ trace' = o.trace
    /\ group_var' = o.group_var
    /\ is_fitted' = o.is_fitted
    /\ trained_on' = o.trained_on

\* The instances the constructors yield.
NewInstances ==
    {LinearRegression_new(n) : n \in BOOLEAN} \cup {BayesianRegression_new(h) : h \in BOOLEAN}

\* Two model instances are constructed; the calls go to the first.
PairInit ==
    /\ \E o \in NewInstances : others = <<o>>
    /\ NoData
    /\ \/ \E n \in BOOLEAN : LinearRegression_init(n)
       \/ \E h \in BOOLEAN : BayesianRegression_init(h)

\* The caller turns to the other instance: the next calls go to it.
Switch ==
    /\ ret = Idle
    /\ others # <<>>
    /\ Becomes(Head(others))
    /\ others' = Tail(others) \o <<Attributes>>
    /\ UNCHANGED <<ret, outside>>

\* The training sets, tables and targets the two instances are given.
PairTrainSets == {d \in TrainSets : NCols(d.X) = 1 \/ Len(d.y) # NRows(d.X)}

PairTables == {X \in PredictTables : NRows(X) = 1 /\ X.columns = <<"feature1">>}

PairBayesTrainSets == {d \in BayesTrainSets : NCols(d.X) = 1 \/ Len(d.y) # NRows(d.X)}

PairFit == Callable("linear") /\ \E d \in PairTrainSets : LinearRegression_fit(d.X, d.y)

PairPredict == Callable("linear") /\ \E X \in PairTables : LinearRegression_predict(X)

PairEvaluate ==
    Callable("linear") /\ \E X \in PairTables : \E y \in TargetsOf(NRows(X)) :
        LinearRegression_evaluate(X, y)

PairCrossValidate ==
    Callable("linear") /\ \E d \in PairTrainSets, cv \in Folds :
        LinearRegression_cross_validate(d.X, d.y, cv)

PairBayesFit ==
    Callable("bayesian") /\ \E d \in PairBayesTrainSets, draws \in DrawCounts, chains \in ChainCounts,
                               seed \in Seeds, at_build \in BOOLEAN :
        BayesianRegression_fit(d.X, d.y, d.group, draws, chains, seed, at_build)

PairBayesPredict ==
    Callable("bayesian") /\ \E X \in PairTables, seed \in Seeds, rs \in BOOLEAN :
        BayesianRegression_predict(X, None, rs, seed)

PairBayesEvaluate ==
    Callable("bayesian") /\ \E X \in PairTables, seed \in Seeds :
        \E y \in TargetsOf(NRows(X)) : BayesianRegression_evaluate(X, y, None, seed)

PairNext ==
    \/ Switch
    \/ PairFit
    \/ PairPredict
    \/ PairEvaluate
    \/ PairCrossValidate
    \/ PairBayesFit
    \/ PairBayesPredict
    \/ PairBayesEvaluate
    \/ Return

PairSpec == PairInit /\ [][PairNext]_vars

\* ------------------------------------------------------------- properties

\* The errors that say the model has not been fitted.
NotFittedErrors == {NotFittedPredict, NotFittedFirst}

\* The call that just ran was `op` and returned a value.
Returned(op) == ret.op = op /\ ret.status = "ok"

\* C1: for both classes, predict on an instance on which no fit has
\* completed raises the not-fitted error and returns no prediction.
C1_PredictBeforeFitRaises ==
    (ret.op = "predict" /\ ~is_fitted) =>
        (ret.status = "error" /\ ret.err = NotFittedPredict /\ ret.value = None)

\* C1's case: predict was called on a model whose only fit so far failed.
C1_Witness == ret.op = "predict" /\ ~is_fitted /\ feature_names # None

\* C2: evaluate, predict_cover_probability, get_feature_importance and
\* get_summary each raise the not-fitted error on an unfitted instance and
\* return no result.
C2_GatedMethodsRaiseBeforeFit ==
    (ret.op \in {"evaluate", "predict_cover_probability", "get_feature_importance", "get_summary"}
     /\ ~is_fitted) =>
        (ret.status = "error" /\ ret.err \in NotFittedErrors /\ ret.value = None)

\* C2's case: get_feature_importance was called after a fit that failed.
C2_Witness == ret.op = "get_feature_importance" /\ ~is_fitted /\ feature_names # None

\* A fit call completed.
FitCompleted == Returned("fit")

\* C3: a new model is unfitted; when fit(X, y) completes the model is
\* fitted and feature_names is the ordered column list of that X; once
\* fitted, the model stays fitted through every later call.
C3_Lifecycle ==
    /\ ~is_fitted
    /\ [](FitCompleted => (is_fitted /\ feature_names = Some(ret.args.X.columns)))
    /\ [][is_fitted => is_fitted']_vars

\* C3's case: a fitted model on which a later fit failed.
C3_Witness == is_fitted /\ ret.op = "fit" /\ ret.status = "error"

\* C4: on a fitted model predict, predict_cover_probability and evaluate
\* leave feature_names, the scaler, the estimator / posterior and is_fitted
\* as they were.
C4_PredictionIsReadOnly ==
    [][(is_fitted /\ ret'.op \in {"predict", "predict_cover_probability", "evaluate"})
          => fitted_state' = fitted_state]_vars

\* C4's case: evaluate returned metrics on a fitted, standardizing model.
C4_Witness == is_fitted /\ normalize /\ Returned("evaluate")

\* C5 as claimed: on a fitted point model predict fails whenever the columns
\* of X differ in name or order from feature_names.
C5_MisalignedColumnsRejected ==
    (kind = "linear" /\ is_fitted /\ ret.op = "predict"
     /\ Some(ret.args.X.columns) # feature_names) => ret.status = "error"

\* A probability: a number between 0 and 1 (NaN is not).
InUnitInterval(q) == IsFinite(q) /\ QLe(QInt(0), q) /\ QLe(q, QInt(1))

\* C6 as claimed: every value predict_cover_probability returns, for either
\* class and any actual_spread and spread_std, lies in [0, 1].
C6_CoverProbabilityInUnitInterval ==
    Returned("predict_cover_probability") =>
        \A i \in 1..Len(ret.value[1]) : InUnitInterval(ret.value[1][i])

\* C7: on a fitted point model predict(X) returns one value per row of X,
\* whatever the number of training rows.
C7_OnePredictionPerRow ==
    (kind = "linear" /\ Returned("predict")) => Len(ret.value[1]) = NRows(ret.args.X)

\* C7's case: a two-row table predicted by a model with two coefficients
\* (its training tables have two or four rows).
C7_Witness ==
    /\ kind = "linear" /\ Returned("predict")
    /\ NRows(ret.args.X) = 2 /\ Len(model.coef_) = 2 /\ ret.value[1][1] # ret.value[1][2]

\* C8 as claimed: the Bayesian predict(X) returns one entry per row of the
\* X it was passed (per chain and draw with return_samples).
C8_BayesPredictionPerRowOfX ==
    (kind = "bayesian" /\ Returned("predict")) =>
        IF ret.args.return_samples
        THEN \A c \in 1..Len(ret.value[1]) : \A d \in 1..Len(ret.value[1][c]) :
                Len(ret.value[1][c][d]) = NRows(ret.args.X)
        ELSE Len(ret.value[1]) = NRows(ret.args.X)

\* The predictions of the point model for the table of the pending outcome.
PredictionsNow == LinearPredict(ret.args.X).value[1]

SamplesNow == SamplePosteriorPredictive(model[1], trace[1], ret.args.seed)

\* C10: the Bayesian cover probability is, per row of the samples, the
\* number of samples over all chains and draws strictly above actual_spread
\* divided by the number of samples of that row.
C10_BayesCoverProbabilityIsShare ==
    (kind = "bayesian" /\ Returned("predict_cover_probability")) =>
        LET s     == SamplesNow
            cells == (1..Len(s)) \X (1..Len(s[1]))
        IN  /\ Len(ret.value[1]) = Len(s[1][1])
            /\ \A r \in 1..Len(s[1][1]) :
                 ret.value[1][r] =
                    Q(Cardinality({cd \in cells : s[cd[1]][cd[2]][r] > ret.args.actual_spread}),
                      Cardinality(cells))

\* C10's case: some but not all samples of a row exceed the spread, and one
\* sample equals it.
C10_Witness ==
    /\ kind = "bayesian" /\ Returned("predict_cover_probability")
    /\ \E r \in 1..Len(ret.value[1]) :
          /\ QLt(QInt(0), ret.value[1][r]) /\ QLt(ret.value[1][r], QInt(1))
          /\ \E c \in 1..Len(SamplesNow), d \in 1..Len(SamplesNow[1]) :
                SamplesNow[c][d][r] = ret.args.actual_spread

\* ------------------------------------------------ utils/metrics.py (module)

\* Longest probability / observation array passed to the metrics functions.
MaxBets == 3

\* bet_threshold when omitted: 0.55.
DefaultBetThreshold == Q(11, 20)

\* bet_size when omitted: 100.0.
DefaultBetSize == 100

\* A lost bet priced at the stake alone.
VigFactor_even == Q(1, 1)

\* The price of a lost bet at -110 odds: 1.1 (taken as the exact decimal).
VigFactor == Q(11, 10)

\* Cover probabilities passed to calculate_profit: below, at and above 0.55.
ProbVals == {Q(1, 2), Q(11, 20), Q(3, 5)}

\* bet_threshold arguments: omitted, or a float.
Thresholds == {None, Some(Q(3, 5)), Some(Q(1, 2))}

\* bet_size arguments: omitted, or a float.
BetSizes == {None, Some(50), Some(0), Some(-100)}

\* The number of True entries of a boolean array: b.sum().
CountTrue(b) == Cardinality({i \in 1..Len(b) : b[i]})

\* BetsPlaced with a strict comparison.
BetsPlaced_strict(cover_probabilities, bet_threshold) ==
    Array([i \in 1..Len(cover_probabilities) |-> QLt(bet_threshold, cover_probabilities[i])])

\* cover_probabilities >= bet_threshold, elementwise.
BetsPlaced(cover_probabilities, bet_threshold) ==
    Array([i \in 1..Len(cover_probabilities) |-> QLe(bet_threshold, cover_probabilities[i])])

\* calculate_profit that computes through instead of returning early.
calculate_profit_no_early_return(cover_probabilities, actual_covers, bet_threshold, bet_size) ==
    LET bets_placed   == BetsPlaced(cover_probabilities, bet_threshold)
        n_bets        == CountTrue(bets_placed)
        wins          == CountTrue([i \in 1..Len(bets_placed) |-> bets_placed[i] /\ actual_covers[i] = 1])
        losses        == n_bets - wins
        total_profit  == QSub(QMul(QInt(wins), bet_size), QMul(QMul(QInt(losses), bet_size), VigFactor))
        total_wagered == QMul(QInt(n_bets), bet_size)
    IN  [total_profit |-> total_profit,
         roi          |-> IF QLt(QInt(0), total_wagered)
                          THEN QMul(QDiv(total_profit, total_wagered), QInt(100))
                          ELSE QInt(0),
         win_rate     |-> IF n_bets > 0 THEN Q(wins, n_bets) ELSE QInt(0),
         n_bets       |-> n_bets,
         wins         |-> wins,
         losses       |-> losses]

\* calculate_profit(cover_probabilities, actual_covers, bet_threshold, bet_size):
\* the dictionary it returns.
calculate_profit(cover_probabilities, actual_covers, bet_threshold, bet_size) ==
    LET bets_placed == BetsPlaced(cover_probabilities, bet_threshold)
        n_bets      == CountTrue(bets_placed)
    IN  IF n_bets = 0
        THEN [total_profit |-> QInt(0), roi |-> QInt(0), win_rate |-> QInt(0), n_bets |-> 0]
        ELSE LET wins          == CountTrue([i \in 1..Len(bets_placed) |->
                                                bets_placed[i] /\ actual_covers[i] = 1])
                 losses        == n_bets - wins
                 total_profit  == QSub(QMul(QInt(wins), bet_size),
                                       QMul(QMul(QInt(losses), bet_size), VigFactor))
                 total_wagered == QMul(QInt(n_bets), bet_size)
             IN  [total_profit |-> total_profit,
                  roi          |-> IF QLt(QInt(0), total_wagered)
                                   THEN QMul(QDiv(total_profit, total_wagered), QInt(100))
                                   ELSE QInt(0),
                  win_rate     |-> IF n_bets > 0 THEN Q(wins, n_bets) ELSE QInt(0),
                  n_bets       |-> n_bets,
                  wins         |-> wins,
                  losses       |-> losses]

\* A call of calculate_profit; an omitted bet_threshold or bet_size takes
\* its default.
calculate_profit_call(cover_probabilities, actual_covers, bet_threshold, bet_size) ==
    /\ Callable("module")
    /\ ret' = Call("calculate_profit",
                   [cover_probabilities |-> cover_probabilities, actual_covers |-> actual_covers,
                    bet_threshold |-> bet_threshold, bet_size |-> bet_size],
                   Ok(calculate_profit(cover_probabilities, actual_covers,
                        IF bet_threshold = None THEN DefaultBetThreshold ELSE bet_threshold[1],
                        QInt(IF bet_size = None THEN DefaultBetSize ELSE bet_size[1]))))
    /\ UNCHANGED <<config, outside, others, trained_on, fitted_state>>

\* Point differentials and betting lines passed to evaluate_predictions.
ObsVals == {0, 1}

\* The arrays of the documented scenario.
ScenarioTrue == <<10, 15, 20>>

ScenarioPred == <<11, 14, 21>>

\* (y_true, y_pred) pairs passed to evaluate_predictions: equally long
\* arrays, and the scenario.
EvalPairs ==
    {<<ScenarioTrue, ScenarioPred>>} \cup
    UNION {SeqsOf(ObsVals, n) \X SeqsOf(ObsVals, n) : n \in 0..MaxBets}

\* actual_spreads arguments for n observations: omitted, or one line per row.
SpreadArrays(n) == {None} \cup {Some(a) : a \in SeqsOf(ObsVals, n)}

\* Covers counting a value equal to the line as well.
Covers_or_equal(v, lines) == Array([i \in 1..Len(v) |-> IF v[i] >= lines[i] THEN 1 ELSE 0])

\* (v > actual_spreads).astype(int), elementwise.
Covers(v, lines) == Array([i \in 1..Len(v) |-> IF v[i] > lines[i] THEN 1 ELSE 0])

\* evaluate_predictions with the residual taken as y_pred - y_true.
evaluate_predictions_reversed(y_true, y_pred, actual_spreads) ==
    LET eval_df == [actual       |-> y_true,
                    predicted    |-> y_pred,
                    residual     |-> Array([i \in 1..Len(y_true) |-> y_pred[i] - y_true[i]]),
                    abs_residual |-> Array([i \in 1..Len(y_true) |-> Abs(y_true[i] - y_pred[i])])]
    IN  IF actual_spreads = None THEN eval_df
        ELSE LET actual_covers    == Covers(y_true, actual_spreads[1])
                 predicted_covers == Covers(y_pred, actual_spreads[1])
             IN  eval_df @@
                 [spread           |-> actual_spreads[1],
                  actual_covers    |-> actual_covers,
                  predicted_covers |-> predicted_covers,
                  correct_cover    |-> Array([i \in 1..Len(y_true) |->
                                          IF actual_covers[i] = predicted_covers[i] THEN 1 ELSE 0])]

\* evaluate_predictions(y_true, y_pred, actual_spreads): the DataFrame it
\* returns, as a record of its columns.
evaluate_predictions(y_true, y_pred, actual_spreads) ==
    LET eval_df == [actual       |-> y_true,
                    predicted    |-> y_pred,
                    residual     |-> Array([i \in 1..Len(y_true) |-> y_true[i] - y_pred[i]]),
                    abs_residual |-> Array([i \in 1..Len(y_true) |-> Abs(y_true[i] - y_pred[i])])]
    IN  IF actual_spreads = None THEN eval_df
        ELSE LET actual_covers    == Covers(y_true, actual_spreads[1])
                 predicted_covers == Covers(y_pred, actual_spreads[1])
             IN  eval_df @@
                 [spread           |-> actual_spreads[1],
                  actual_covers    |-> actual_covers,
                  predicted_covers |-> predicted_covers,
                  correct_cover    |-> Array([i \in 1..Len(y_true) |->
                                          IF actual_covers[i] = predicted_covers[i] THEN 1 ELSE 0])]

\* A call of evaluate_predictions.
evaluate_predictions_call(y_true, y_pred, actual_spreads) ==
    /\ Callable("module")
    /\ ret' = Call("evaluate_predictions",
                   [y_true |-> y_true, y_pred |-> y_pred, actual_spreads |-> actual_spreads],
                   Ok(evaluate_predictions(y_true, y_pred, actual_spreads)))
    /\ UNCHANGED <<config, outside, others, trained_on, fitted_state>>

\* ---------------------------------------------- models/__init__.py (package)

\* What `from .bayesian_regression import BayesianRegression` does: it
\* succeeds when PyMC and ArviZ are installed and raises ImportError when
\* they are not.
BackendImports == {"ok", "ImportError"}

\* The package import with no handler around the optional import.
models_package_unguarded(backend) ==
    IF backend = "ok"
    THEN Ok([names |-> {"LinearRegression", "BayesianRegression"},
             all   |-> <<"LinearRegression", "BayesianRegression">>])
    ELSE Raise("ImportError")

\* Executing models/__init__.py: the names bound in the package and its
\* __all__.  LinearRegression is imported first; the Bayesian import sits in
\* try / except ImportError.
models_package(backend) ==
    IF backend = "ok"
    THEN Ok([names |-> {"LinearRegression", "BayesianRegression"},
             all   |-> <<"LinearRegression", "BayesianRegression">>])
    ELSE Ok([names |-> {"LinearRegression"},
             all   |-> <<"LinearRegression">>])

\* import bowl_mania.models
import_models(backend) ==
    /\ Callable("module")
    /\ ret' = Call("import_models", [backend |-> backend], models_package(backend))
    /\ UNCHANGED <<config, outside, others, trained_on, fitted_state>>

\* ------------------------------------- specification of the module functions

\* No model instance is constructed; only module-level functions are called.
UtilInit ==
    /\ kind = "module"
    /\ normalize = FALSE
    /\ hierarchical = FALSE
    /\ model = None
    /\ scaler = None
    /\ feature_names = None
    /\ trace = None
    /\ group_var = None
    /\ is_fitted = FALSE
    /\ ret = Idle
    /\ others = <<>>
    /\ trained_on = None
    /\ NoData

CalculateProfit ==
    /\ Callable("module")
    /\ \E n \in 0..MaxBets : \E p \in SeqsOf(ProbVals, n), c \in SeqsOf({0, 1}, n) :
          \E th \in Thresholds, bs \in BetSizes : calculate_profit_call(p, c, th, bs)

EvaluatePredictions ==
    /\ Callable("module")
    /\ \E yy \in EvalPairs : \E a \in SpreadArrays(Len(yy[1])) :
          evaluate_predictions_call(yy[1], yy[2], a)

ImportModels == Callable("module") /\ \E b \in BackendImports : import_models(b)

UtilNext ==
    \/ ImportModels
    \/ CalculateProfit
    \/ EvaluatePredictions
    \/ Return

UtilSpec == UtilInit /\ [][UtilNext]_vars

\* ------------------------------------------------ properties of the metrics

\* The bet_threshold the pending calculate_profit call ran with.
ThresholdNow ==
    IF ret.args.bet_threshold = None THEN Q(11, 20) ELSE ret.args.bet_threshold[1]

\* The rows of the pending calculate_profit call at or above the threshold.
RowsBet ==
    {i \in 1..Len(ret.args.cover_probabilities) :
        ~QLt(ret.args.cover_probabilities[i], ThresholdNow)}

\* C11: when no row's cover probability reaches bet_threshold (an empty
\* input included) calculate_profit returns exactly total_profit, roi,
\* win_rate and n_bets, all the constant 0 and none a quotient.
C11_NoBetsAllZero ==
    (Returned("calculate_profit") /\ RowsBet = {}) =>
        ret.value[1] = [total_profit |-> <<0, 1>>, roi |-> <<0, 1>>, win_rate |-> <<0, 1>>, n_bets |-> 0]

\* C11's case: three rows below the threshold, one of which covered, with a
\* zero bet size.
C11_Witness ==
    /\ Returned("calculate_profit") /\ RowsBet = {}
    /\ Len(ret.args.cover_probabilities) = 3
    /\ ret.args.actual_covers[2] = 1
    /\ ret.args.bet_size = Some(0)

\* The rows of the pending calculate_profit call that were bet and covered.
RowsWon == {i \in RowsBet : ret.args.actual_covers[i] = 1}

BetSizeNow == IF ret.args.bet_size = None THEN 100 ELSE ret.args.bet_size[1]

\* wins*bet_size - losses*bet_size*1.1 for the pending calculate_profit call.
ProfitNow ==
    QSub(QMul(QInt(Cardinality(RowsWon)), QInt(BetSizeNow)),
         QMul(QMul(QInt(Cardinality(RowsBet) - Cardinality(RowsWon)), QInt(BetSizeNow)), Q(11, 10)))

\* total_profit / (n_bets*bet_size) * 100 for the pending calculate_profit call.
RoiNow == QMul(QDiv(ProfitNow, QMul(QInt(Cardinality(RowsBet)), QInt(BetSizeNow))), QInt(100))

C14_ImportanceRowsRanked ==
    (kind = "linear" /\ is_fitted /\ ret.op = "get_feature_importance") =>
        /\ ret.status = "ok"
        /\ LET rws  == ret.value[1]
               cols == trained_on[1].X.columns
           IN  /\ Len(rws) = Len(cols)
               /\ {rws[i] : i \in 1..Len(rws)} =
                     {[feature |-> cols[j], coefficient |-> model.coef_[j],
                       abs_coefficient |-> QAbs(model.coef_[j])] : j \in 1..Len(cols)}
               /\ \A i \in 1..(Len(rws) - 1) :
                     QLe(rws[i + 1].abs_coefficient, rws[i].abs_coefficient)

\* The columns evaluate_predictions always returns.
ResidualColumns == {"actual", "predicted", "residual", "abs_residual"}

\* The columns it adds when actual_spreads is supplied.
CoverColumns == {"spread", "actual_covers", "predicted_covers", "correct_cover"}

\* C15: evaluate_predictions returns one row per observation, in input
\* order, with residual = y_true - y_pred and abs_residual = |y_true - y_pred|;
\* y_true [10,15,20] and y_pred [11,14,21] give residuals [-1,1,-1] and
\* abs_residual [1,1,1].
C15_ResidualRows ==
    Returned("evaluate_predictions") =>
        LET df == ret.value[1]
            yt == ret.args.y_true
            yp == ret.args.y_pred
        IN  /\ \A c \in ResidualColumns : Len(df[c]) = Len(yt)
            /\ \A i \in 1..Len(yt) :
                 /\ df.actual[i] = yt[i] /\ df.predicted[i] = yp[i]
                 /\ df.residual[i] + yp[i] = yt[i]
                 /\ df.abs_residual[i] >= 0
                 /\ df.abs_residual[i] \in {yt[i] - yp[i], yp[i] - yt[i]}
            /\ (yt = <<10, 15, 20>> /\ yp = <<11, 14, 21>>) =>
                 (df.residual = <<-1, 1, -1>> /\ df.abs_residual = <<1, 1, 1>>)

\* C15's case: the scenario's arrays were evaluated.
C15_Witness ==
    /\ Returned("evaluate_predictions")
    /\ ret.args.y_true = <<10, 15, 20>> /\ ret.args.y_pred = <<11, 14, 21>>

\* C16: with actual_spreads, per row actual_covers = 1 iff y_true > spread,
\* predicted_covers = 1 iff y_pred > spread (a value equal to the spread
\* does not cover) and correct_cover = 1 iff the two agree; without
\* actual_spreads none of the spread / cover columns is present.
C16_CoverColumns ==
    Returned("evaluate_predictions") =>
        LET df == ret.value[1]
            yt == ret.args.y_true
            yp == ret.args.y_pred
        IN  IF ret.args.actual_spreads = None
            THEN DOMAIN df = ResidualColumns
            ELSE LET sp == ret.args.actual_spreads[1]
                 IN  /\ DOMAIN df = ResidualColumns \cup CoverColumns
                     /\ \A c \in CoverColumns : Len(df[c]) = Len(yt)
                     /\ \A i \in 1..Len(yt) :
                          /\ df.spread[i] = sp[i]
                          /\ df.actual_covers[i] \in {0, 1}
                          /\ df.predicted_covers[i] \in {0, 1}
                          /\ df.correct_cover[i] \in {0, 1}
                          /\ df.actual_covers[i] = 1 <=> yt[i] > sp[i]
                          /\ df.predicted_covers[i] = 1 <=> yp[i] > sp[i]
                          /\ df.correct_cover[i] = 1 <=>
                                df.actual_covers[i] = df.predicted_covers[i]

\* C16's case: one row whose actual value equals the spread while the
\* prediction exceeds it, and another row on which the two agree.
C16_Witness ==
    /\ Returned("evaluate_predictions")
    /\ ret.args.actual_spreads # None
    /\ \E i, j \in 1..Len(ret.args.y_true) :
          /\ ret.args.y_true[i] = ret.args.actual_spreads[1][i]
          /\ ret.args.y_pred[i] > ret.args.actual_spreads[1][i]
          /\ ret.value[1].correct_cover[i] = 0
          /\ ret.value[1].correct_cover[j] = 1

\* The mean squared error of each fold of the pending cross_validate call,
\* on the table as the instance's scaler now standardizes it.
FoldErrorsNow ==
    LET X  == ret.args.X
        A  == IF normalize THEN ScalerTransform(scaler[1], X) ELSE Values(X)
    IN  [f \in 1..ret.args.cv |-> FoldMSE(A, AsFloats(ret.args.y), ret.args.cv, f)]

\* C17: cross_validate returns mean_mse, the non-negative mean of the
\* per-fold mean squared errors over the cv folds, rmse = sqrt(mean_mse),
\* and std_mse >= 0 (the root of a non-negative number).
C17_CrossValidateMetrics ==
    (kind = "linear" /\ Returned("cross_validate")) =>
        LET v == ret.value[1]
        IN  /\ DOMAIN FoldErrorsNow = 1..ret.args.cv
            /\ v.mean_mse = QMean(FoldErrorsNow)
            /\ QLe(QInt(0), v.mean_mse)
            /\ v.rmse.radicand = v.mean_mse
            /\ QLe(QInt(0), v.std_mse.radicand)

\* C17's case: folds with different, non-zero errors on a standardizing
\* model.
C17_Witness ==
    /\ kind = "linear" /\ normalize /\ Returned("cross_validate")
    /\ QLt(QInt(0), FoldErrorsNow[1])
    /\ FoldErrorsNow[1] # FoldErrorsNow[2]
    /\ QLt(QInt(0), ret.value[1].std_mse.radicand)

\* C18: importing the models package succeeds whether or not the Bayesian
\* backend can be imported and always exposes LinearRegression;
\* BayesianRegression is bound and listed in __all__ exactly when the
\* backend imports.
C18_OptionalBayesianExport ==
    ret.op = "import_models" =>
        /\ ret.status = "ok"
        /\ "LinearRegression" \in ret.value[1].names
        /\ {ret.value[1].all[i] : i \in 1..Len(ret.value[1].all)} = ret.value[1].names
        /\ "BayesianRegression" \in ret.value[1].names <=> ret.args.backend = "ok"

\* C18's case: the package was imported without the backend.
C18_Witness == ret.op = "import_models" /\ ret.args.backend = "ImportError"

\* C19: a fit, predict, evaluate or cross_validate call on one model
\* instance leaves feature_names, the scaler, the estimator / posterior
\* samples and is_fitted of every other instance as they were.
C19_InstancesAreIsolated ==
    [][ret'.op \in {"fit", "predict", "evaluate", "cross_validate"} => others' = others]_vars

\* C19's case: a fit completed on one instance while the other instance
\* is a fitted standardizing point model holding other feature_names.
C19_Witness ==
    /\ Returned("fit")
    /\ others # <<>>
    /\ others[1].kind = "linear" /\ others[1].normalize /\ others[1].is_fitted
    /\ others[1].feature_names # feature_names

\* y - p, row by row.
Residuals(y, p) == [i \in 1..Len(y) |-> QSub(QInt(y[i]), p[i])]

\* p are least-squares fitted values of y on the table X with an intercept:
\* the fitted values of a least-squares fit on the raw columns, whose
\* residuals sum to zero and are orthogonal to every column (the normal
\* equations of the minimal sum of squared residuals).
IsLeastSquaresFit(p, X, y) ==
    /\ Len(p) = NRows(X)
    /\ p = EstimatorPredict(EstimatorFit(Values(X), AsFloats(y)), Values(X))
    /\ QSum(Residuals(y, p)) = QInt(0)
    /\ \A j \in 1..NCols(X) :
          QSum([i \in 1..NRows(X) |-> QMul(Residuals(y, p)[i], QInt(X.rows[i][j]))]) = QInt(0)

\* C20 as claimed: on any fitted point model, predict applied to the exact
\* training table returns the least-squares fitted values for that table
\* and target.
C20_TrainingTableGivesFittedValues ==
    (kind = "linear" /\ is_fitted /\ ret.op = "predict" /\ ret.args.X = trained_on[1].X) =>
        /\ ret.status = "ok"
        /\ IsLeastSquaresFit(ret.value[1], trained_on[1].X, trained_on[1].y)

\* ------------------------------------------------------------ cfbd_api.py

BASE_URL == "https://api.collegefootballdata.com"

\* The keys the environment may configure; the empty string when it has none.
ApiKeys == {"", "k3y"}

\* _get_headers with the Authorization header on every request.
_get_headers_always_authorized ==
    ("accept" :> "application/json") @@ ("Authorization" :> ("Bearer " \o API_KEY))

_get_headers ==
    IF API_KEY # ""
        THEN ("accept" :> "application/json") @@ ("Authorization" :> ("Bearer " \o API_KEY))
        ELSE ("accept" :> "application/json")

\* What the service may answer: a connection that fails, or a status code
\* with a JSON body.
Replies ==
    {[exception |-> "ConnectionError", status_code |-> 0, json |-> <<>>],
     [exception |-> "", status_code |-> 200, json |-> <<>>],
     [exception |-> "", status_code |-> 200, json |-> <<[id |-> "401", team |-> "Alabama"]>>],
     [exception |-> "", status_code |-> 404, json |-> <<[message |-> "Not Found"]>>]}

HTTPError == "requests.exceptions.HTTPError"

\* requests.get followed by raise_for_status and json: the request as sent,
\* filed with the reply it drew, and what the caller gets for that reply.
_make_request(endpoint, params, reply) ==
    [request |-> [url |-> BASE_URL \o endpoint, headers |-> _get_headers, params |-> params,
                  reply |-> reply],
     out |-> IF reply.exception # "" THEN Raise("requests.exceptions." \o reply.exception)
             ELSE IF reply.status_code >= 400 THEN Raise(HTTPError)
             ELSE Ok(reply.json)]

\* Python truth of an optional string and of an optional integer.
TruthyStr(o) == o # None /\ o[1] # ""

TruthyInt(o) == o # None /\ o[1] # 0

\* params[key] = o's value when the `if` on o passes; params otherwise.
WithParam(params, key, o, truthy) == IF truthy THEN (key :> o[1]) @@ params ELSE params

get_bowl_games(year, season_type, reply) ==
    _make_request("/games", ("year" :> year) @@ ("seasonType" :> season_type), reply)

get_team_season_stats(year, team, conference, reply) ==
    LET p0 == ("year" :> year)
        p1 == WithParam(p0, "team", team, TruthyStr(team))
        p2 == WithParam(p1, "conference", conference, TruthyStr(conference))
    IN  _make_request("/stats/season/advanced", p2, reply)

get_sp_plus_ratings(year, team, reply) ==
    _make_request("/ratings/sp", WithParam(("year" :> year), "team", team, TruthyStr(team)), reply)

get_betting_lines(year, week, season_type, team, home, away, reply) ==
    LET p0 == ("year" :> year) @@ ("seasonType" :> season_type)
        p1 == WithParam(p0, "week", week, TruthyInt(week))
        p2 == WithParam(p1, "team", team, TruthyStr(team))
        p3 == WithParam(p2, "home", home, TruthyStr(home))
        p4 == WithParam(p3, "away", away, TruthyStr(away))
    IN  _make_request("/lines", p4, reply)

get_fpi_ratings(year, team, reply) ==
    _make_request("/ratings/fpi", WithParam(("year" :> year), "team", team, TruthyStr(team)), reply)

DefaultSeasonType == "postseason"

\* The keys of the dictionary get_bowl_game_complete_data builds, in the
\* order their values are fetched.
CompleteKeys == <<"bowl_games", "team_stats", "sp_plus", "fpi", "betting_lines">>

\* The i-th fetch of get_bowl_game_complete_data(year).
CompleteFetch(i, year, reply) ==
    CASE i = 1 -> get_bowl_games(year, DefaultSeasonType, reply)
      [] i = 2 -> get_team_season_stats(year, None, None, reply)
      [] i = 3 -> get_sp_plus_ratings(year, None, reply)
      [] i = 4 -> get_fpi_ratings(year, None, reply)
      [] i = 5 -> get_betting_lines(year, None, DefaultSeasonType, None, None, None, reply)

\* The positions of the fetches whose reply is an error.
FailedFetches(year, replies) ==
    {i \in 1..5 : CompleteFetch(i, year, replies[i]).out.status = "error"}

Min(S) == CHOOSE i \in S : \A j \in S : i <= j

\* get_bowl_game_complete_data that leaves out the values it could not fetch.
get_bowl_game_complete_data_partial(year, replies) ==
    LET bad == FailedFetches(year, replies)
        good == (1..5) \ bad
    IN  [requests |-> [i \in 1..5 |-> CompleteFetch(i, year, replies[i]).request],
         out |-> Ok([k \in {CompleteKeys[i] : i \in good} |->
                        LET i == CHOOSE j \in good : CompleteKeys[j] = k
                        IN  CompleteFetch(i, year, replies[i]).out.value[1]])]

\* The dictionary literal evaluates its five values in order; the first
\* fetch that raises ends the call.
get_bowl_game_complete_data(year, replies) ==
    LET bad == FailedFetches(year, replies)
        last == IF bad = {} THEN 5 ELSE Min(bad)
    IN  [requests |-> [i \in 1..last |-> CompleteFetch(i, year, replies[i]).request],
         out |-> IF bad # {}
                    THEN CompleteFetch(last, year, replies[last]).out
                    ELSE Ok([k \in {CompleteKeys[i] : i \in 1..5} |->
                                LET i == CHOOSE j \in 1..5 : CompleteKeys[j] = k
                                IN  CompleteFetch(i, year, replies[i]).out.value[1]])]

\* A module-level function ran: its requests went out and its outcome is
\* pending.
ApiCall(op, args, requests, out) ==
    /\ sent' = requests
    /\ ret' = Call(op, args, out)
    /\ UNCHANGED <<config, others, trained_on, fitted_state, API_KEY, cache_dir>>

\* _get_headers is called on its own.
get_headers_call == ApiCall("_get_headers", <<>>, <<>>, Ok(_get_headers))

\* ---------------------------------------------- specification of cfbd_api

Years == {2023, 2024}

SeasonTypes == {"postseason", "regular"}

TeamArgs == {None, Some("Alabama"), Some("")}

ConferenceArgs == {None, Some("SEC"), Some("")}

WeekArgs == {None, Some(1), Some(0)}

HomeArgs == {None, Some("Texas")}

AwayArgs == {None, Some("")}

\* The module is imported with the key the environment holds.
ApiInit ==
    /\ kind = "cfbd_api"
    /\ normalize = FALSE
    /\ hierarchical = FALSE
    /\ model = None
    /\ scaler = None
    /\ feature_names = None
    /\ trace = None
    /\ group_var = None
    /\ is_fitted = FALSE
    /\ ret = Idle
    /\ others = <<>>
    /\ trained_on = None
    /\ API_KEY \in ApiKeys
    /\ sent = <<>>
    /\ cache_dir = <<>>

GetHeaders == Callable("cfbd_api") /\ get_headers_call

GetBowlGames ==
    /\ Callable("cfbd_api")
    /\ \E year \in Years, season_type \in SeasonTypes, reply \in Replies :
          LET r == get_bowl_games(year, season_type, reply)
          IN  ApiCall("get_bowl_games", [year |-> year, season_type |-> season_type],
                      <<r.request>>, r.out)

GetTeamSeasonStats ==
    /\ Callable("cfbd_api")
    /\ \E year \in Years, team \in TeamArgs, conference \in ConferenceArgs, reply \in Replies :
          LET r == get_team_season_stats(year, team, conference, reply)
          IN  ApiCall("get_team_season_stats",
                      [year |-> year, team |-> team, conference |-> conference],
                      <<r.request>>, r.out)

GetSpPlusRatings ==
    /\ Callable("cfbd_api")
    /\ \E year \in Years, team \in TeamArgs, reply \in Replies :
          LET r == get_sp_plus_ratings(year, team, reply)
          IN  ApiCall("get_sp_plus_ratings", [year |-> year, team |-> team],
                      <<r.request>>, r.out)

GetBettingLines ==
    /\ Callable("cfbd_api")
    /\ \E year \in Years, week \in WeekArgs, season_type \in SeasonTypes, team \in TeamArgs,
          home \in HomeArgs, away \in AwayArgs, reply \in Replies :
          LET r == get_betting_lines(year, week, season_type, team, home, away, reply)
          IN  ApiCall("get_betting_lines",
                      [year |-> year, week |-> week, season_type |-> season_type,
                       team |-> team, home |-> home, away |-> away],
                      <<r.request>>, r.out)

GetFpiRatings ==
    /\ Callable("cfbd_api")
    /\ \E year \in Years, team \in TeamArgs, reply \in Replies :
          LET r == get_fpi_ratings(year, team, reply)
          IN  ApiCall("get_fpi_ratings", [year |-> year, team |-> team],
                      <<r.request>>, r.out)

GetBowlGameCompleteData ==
    /\ Callable("cfbd_api")
    /\ \E year \in Years, replies \in [1..5 -> Replies] :
          LET r == get_bowl_game_complete_data(year, replies)
          IN  ApiCall("get_bowl_game_complete_data", [year |-> year],
                      r.requests, r.out)

\* The caller takes the outcome of a module-level function; the requests of
\* the next call are counted afresh.
ApiReturn ==
    /\ ret # Idle
    /\ ret' = Idle
    /\ sent' = <<>>
    /\ UNCHANGED <<config, others, trained_on, fitted_state, API_KEY, cache_dir>>

ApiNext ==
    \/ GetHeaders
    \/ GetBowlGames
    \/ GetTeamSeasonStats
    \/ GetSpPlusRatings
    \/ GetBettingLines
    \/ GetFpiRatings
    \/ GetBowlGameCompleteData
    \/ ApiReturn

ApiSpec == ApiInit /\ [][ApiNext]_vars

\* ------------------------------------------------- properties of cfbd_api

\* C21: the headers _get_headers returns always carry accept =
\* application/json, and carry Authorization, equal to "Bearer " followed by
\* the key, exactly when the configured key is not empty.
C21_HeadersCarryKeyWhenConfigured ==
    Returned("_get_headers") =>
        LET headers == ret.value[1]
        IN  /\ "accept" \in DOMAIN headers
            /\ headers["accept"] = "application/json"
            /\ ("Authorization" \in DOMAIN headers) <=> (API_KEY # "")
            /\ API_KEY # "" => headers["Authorization"] = "Bearer " \o API_KEY

\* C21's case: _get_headers returned while a key is configured.
C21_Witness == Returned("_get_headers") /\ API_KEY # "" /\ "Authorization" \in DOMAIN ret.value[1]

\* The five fetch functions and the endpoint of each.
FetchOps ==
    {"get_bowl_games", "get_team_season_stats", "get_sp_plus_ratings", "get_fpi_ratings",
     "get_betting_lines"}

EndpointOf(op) ==
    CASE op = "get_bowl_games" -> "/games"
      [] op = "get_team_season_stats" -> "/stats/season/advanced"
      [] op = "get_sp_plus_ratings" -> "/ratings/sp"
      [] op = "get_fpi_ratings" -> "/ratings/fpi"
      [] op = "get_betting_lines" -> "/lines"

OptionalFilters == {"team", "conference", "week", "home", "away"}

\* The optional filters the caller of the pending fetch passed a value for.
FiltersSupplied == {k \in OptionalFilters \cap DOMAIN ret.args : ret.args[k] # None}

\* The optional filters the caller passed a value for that Python holds true:
\* a non-empty string, a week other than 0.
FiltersHeldTrue ==
    {k \in FiltersSupplied : IF k = "week" THEN ret.args[k][1] # 0 ELSE ret.args[k][1] # ""}

\* What every fetch does whatever the filters: one request, to its own
\* endpoint, with year (and seasonType for games and lines); the body of a
\* successful reply is returned as it came.
OneRequestAnswered ==
    /\ Len(sent) = 1
    /\ sent[1].url = BASE_URL \o EndpointOf(ret.op)
    /\ sent[1].params["year"] = ret.args.year
    /\ ret.op \in {"get_bowl_games", "get_betting_lines"} =>
          /\ "seasonType" \in DOMAIN sent[1].params
          /\ sent[1].params["seasonType"] = ret.args.season_type
    /\ ret.status = "ok" => ret.value = Some(sent[1].reply.json)

\* C22: each fetch function issues exactly one request to its own endpoint
\* whose parameters hold year (and seasonType for games and lines) and hold
\* an optional filter exactly when the caller supplied it, and returns the
\* reply's body unchanged.
C22_FetchSendsSuppliedFilters ==
    ret.op \in FetchOps =>
        /\ OneRequestAnswered
        /\ DOMAIN sent[1].params \cap OptionalFilters = FiltersSupplied
        /\ \A k \in FiltersSupplied : sent[1].params[k] = ret.args[k][1]

\* What the fetch functions do: a filter is sent exactly when the value
\* supplied for it is true in Python.
FetchSendsFiltersHeldTrue ==
    ret.op \in FetchOps =>
        /\ OneRequestAnswered
        /\ DOMAIN sent[1].params \cap OptionalFilters = FiltersHeldTrue
        /\ \A k \in FiltersHeldTrue : sent[1].params[k] = ret.args[k][1]

\* A fetch was asked for week 0 and sent no week.
WeekZeroDropped ==
    /\ ret.op = "get_betting_lines"
    /\ ret.args.week = Some(0)
    /\ "week" \notin DOMAIN sent[1].params

\* The service did not answer the request with a body: the connection failed
\* or the status is an error status.
ReplyFails(reply) == reply.exception # "" \/ reply.status_code >= 400

\* The fetch function whose value get_bowl_game_complete_data stores under
\* each of its keys.
FetchOf(key) ==
    CASE key = "bowl_games" -> "get_bowl_games"
      [] key = "team_stats" -> "get_team_season_stats"
      [] key = "sp_plus" -> "get_sp_plus_ratings"
      [] key = "fpi" -> "get_fpi_ratings"
      [] key = "betting_lines" -> "get_betting_lines"

\* The requests of the pending call that went to the endpoint of fetch op.
RequestsTo(op) == {i \in 1..Len(sent) : sent[i].url = BASE_URL \o EndpointOf(op)}

\* C23: a get_bowl_game_complete_data(year) that returns has called each of
\* the five fetch functions exactly once, with that year and no filter, and
\* returns a dictionary with exactly the keys bowl_games, team_stats, sp_plus,
\* fpi and betting_lines, each holding what its fetch returned; when any
\* fetch fails the call raises and returns no dictionary, partial or whole.
C23_CompleteDataAllOrNothing ==
    ret.op = "get_bowl_game_complete_data" =>
        /\ (\E i \in 1..Len(sent) : ReplyFails(sent[i].reply)) =>
              ret.status = "error" /\ ret.value = None
        /\ ret.status = "ok" =>
              /\ Len(sent) = 5
              /\ \A op \in FetchOps : Cardinality(RequestsTo(op)) = 1
              /\ \A i \in 1..5 :
                    /\ sent[i].params["year"] = ret.args.year
                    /\ DOMAIN sent[i].params \cap OptionalFilters = {}
              /\ DOMAIN ret.value[1] = {CompleteKeys[i] : i \in 1..5}
              /\ \A key \in DOMAIN ret.value[1] :
                    \E i \in RequestsTo(FetchOf(key)) : ret.value[1][key] = sent[i].reply.json

\* C23's case: all five fetches were answered and the dictionary came back
\* with games in it.
C23_Witness ==
    /\ Returned("get_bowl_game_complete_data")
    /\ Len(sent) = 5
    /\ ret.value[1]["bowl_games"] # <<>>
    /\ ret.value[1]["fpi"] = <<>>

\* ------------------------------------- properties of the fit of both models

\* The posterior trace t holds, per chain and draw, one intercept and one
\* coefficient per feature.
GlobalParameters(t) ==
    \A c \in 1..t.chains : \A d \in 1..t.draws :
        /\ t.alpha[c][d] \in -1..1
        /\ Len(t.beta[c][d]) = t.n_features
        /\ \A j \in 1..t.n_features : t.beta[c][d][j] \in -1..1

\* The posterior trace t holds, per chain and draw, an intercept and a
\* coefficient vector for each group.
GroupParameters(t) ==
    \A c \in 1..t.chains : \A d \in 1..t.draws :
        /\ Len(t.alpha[c][d]) = t.n_groups
        /\ Len(t.beta[c][d]) = t.n_groups
        /\ \A g \in 1..t.n_groups : Len(t.beta[c][d][g]) = t.n_features

\* C24: a completed BayesianRegression.fit has built the group-indexed model
\* exactly when the instance is hierarchical and a group was passed, and has
\* then recorded that group on the instance; otherwise (flat instance, or
\* group=None) it has built the flat model, with one intercept and one
\* coefficient vector for all rows.
C24_FitBuildsTopologyByGroup ==
    (kind = "bayesian" /\ Returned("fit")) =>
        IF hierarchical /\ ret.args.group # None
        THEN /\ model[1].topology = "hierarchical"
             /\ trace[1].topology = "hierarchical"
             /\ group_var = ret.args.group
             /\ Len(model[1].group_idx) = Len(ret.args.group[1])
             /\ GroupParameters(trace[1])
        ELSE /\ model[1].topology = "simple"
             /\ trace[1].topology = "simple"
             /\ GlobalParameters(trace[1])

\* C24's case: a hierarchical instance was fitted with a group of two labels.
C24_Witness ==
    /\ kind = "bayesian"
    /\ Returned("fit")
    /\ hierarchical
    /\ ret.args.group # None
    /\ model[1].n_groups = 2

\* ------------------------------------- specification of the group encoding

\* Longest group series passed to build_hierarchical_model.
MaxLabels == 4

\* Conference labels, and the missing label.
Labels == {"SEC", "B1G", "ACC", NA}

\* The group series: at least one row carries a label.
GroupSeries ==
    {g \in UNION {SeqsOf(Labels, n) : n \in 1..MaxLabels} : \E i \in 1..Len(g) : g[i] # NA}

\* A one-feature table and a target of n rows.
TableOfRows(n) == DataFrame(<<"feature1">>, Array([i \in 1..n |-> <<i % 2>>]))

TargetOfRows(n) == Array([i \in 1..n |-> i % 2])

\* build_hierarchical_model is called on its own: the graph is returned and
\* the instance is left as it is.
build_hierarchical_model_call(X, y, group) ==
    /\ ret' = Call("build_hierarchical_model", [X |-> X, y |-> y, group |-> group],
                   Ok(build_hierarchical_model(X, y, group)))
    /\ UNCHANGED <<config, outside, others, trained_on, fitted_state>>

\* A hierarchical instance is constructed.
EncodeInit ==
    /\ others = <<>>
    /\ NoData
    /\ BayesianRegression_init(TRUE)

BuildHierarchicalModel ==
    /\ Callable("bayesian")
    /\ \E g \in GroupSeries :
          build_hierarchical_model_call(TableOfRows(Len(g)), TargetOfRows(Len(g)), g)

EncodeNext ==
    \/ BuildHierarchicalModel
    \/ Return

EncodeSpec == EncodeInit /\ [][EncodeNext]_vars

\* The group indices of the graph the pending build_hierarchical_model call
\* returned follow the order in which the labels first appear: the first row
\* has index 0 and every later row has an index already used or the next one.
FirstAppearanceOrder(idx) ==
    /\ idx[1] = 0
    /\ \A i \in 2..Len(idx) :
          \/ \E j \in 1..(i - 1) : idx[j] = idx[i]
          \/ idx[i] = Cardinality({idx[j] : j \in 1..(i - 1)})

\* C25: the group encoding gives each row an integer index in
\* 0..n_groups-1, n_groups being the number of distinct labels; rows with
\* equal labels have equal indices, rows with different labels different
\* indices, and the indices follow the order of first appearance.
C25_GroupIndexIsDense ==
    Returned("build_hierarchical_model") =>
        LET labels == ret.args.group
            idx == ret.value[1].group_idx
            n_groups == ret.value[1].n_groups
        IN  /\ Len(idx) = Len(labels)
            /\ n_groups = Cardinality({labels[i] : i \in 1..Len(labels)})
            /\ \A i \in 1..Len(idx) : idx[i] \in 0..(n_groups - 1)
            /\ \A i, j \in 1..Len(idx) : (labels[i] = labels[j]) <=> (idx[i] = idx[j])
            /\ FirstAppearanceOrder(idx)

\* The same for a series in which no label is missing, with n_groups the
\* number of distinct labels present.
GroupIndexIsDenseWhenNoneMissing ==
    (Returned("build_hierarchical_model") /\ \A i \in 1..Len(ret.args.group) : ret.args.group[i] # NA) =>
        C25_GroupIndexIsDense

\* A row with a missing label was given the index -1.
MissingLabelIndexedBelowZero ==
    /\ Returned("build_hierarchical_model")
    /\ ret.args.group = <<"SEC", NA, "B1G">>
    /\ ret.value[1].group_idx = <<0, -1, 1>>
    /\ ret.value[1].n_groups = 2

\* ------------------------------------------------- data/cfbd_client.py

\* A cell of a table of the data layer: its Python type and its text.
Cell(type, text) == [type |-> type, text |-> text]

\* A missing value (None or NaN).
NaNCell == Cell("NaN", "")

\* The texts that read as integers, and the integer each reads as.
IntTexts == {"7", "007", "401", "402"}

ParseInt(text) == IF text = "007" THEN "7" ELSE text

\* The rows with the cells of column j of table t.
ColumnTexts(csv, j) == {csv.lines[i][j] : i \in 1..Len(csv.lines)}

\* DataFrame.to_csv(filepath, index=False): the header and, per row, the text
\* of each cell; a missing value is written as the empty text.
to_csv(data) ==
    [header |-> data.columns,
     lines |-> Array([i \in 1..NRows(data) |->
                  Array([j \in 1..NCols(data) |-> data.rows[i][j].text])])]

EmptyDataError == "pandas.errors.EmptyDataError: No columns to parse from file"

\* pd.read_csv(filepath): a file without header has nothing to parse; a
\* column whose texts all read as integers becomes an integer column, one of
\* integers and empty texts a float column; elsewhere an empty text becomes
\* NaN and any other text a string.
read_csv(csv) ==
    IF csv.header = <<>> THEN Raise(EmptyDataError)
    ELSE Ok(DataFrame(csv.header,
            Array([i \in 1..Len(csv.lines) |-> Array([j \in 1..Len(csv.header) |->
                LET text == csv.lines[i][j]
                    texts == ColumnTexts(csv, j)
                IN  IF texts \subseteq IntTexts THEN Cell("int", ParseInt(text))
                    ELSE IF text = "" THEN NaNCell
                    ELSE IF texts \subseteq (IntTexts \cup {""}) THEN Cell("float", ParseInt(text) \o ".0")
                    ELSE Cell("str", text)])])))

\* What load_from_cache makes of the file it finds.
load_file(file) == read_csv(file.csv)

\* The file save_to_cache leaves: the CSV text, and for the record the table
\* it was written from.
CacheFile(data) == [csv |-> to_csv(data), saved |-> data]

\* cache_dir / filename now holds data.
WriteFile(dir, filename, data) ==
    [f \in DOMAIN dir \cup {filename} |-> IF f = filename THEN CacheFile(data) ELSE dir[f]]

\* CFBDClient.save_to_cache(data, filename)
save_to_cache(data, filename) ==
    /\ Callable("CFBDClient")
    /\ cache_dir' = WriteFile(cache_dir, filename, data)
    /\ ret' = Call("save_to_cache", [data |-> data, filename |-> filename], Ok("None"))
    /\ UNCHANGED <<config, others, trained_on, fitted_state, API_KEY, sent>>

FileNotFoundError == "FileNotFoundError: Cache file not found"

\* CFBDClient.load_from_cache(filename)
load_from_cache(filename) ==
    /\ Callable("CFBDClient")
    /\ ret' = Call("load_from_cache", [filename |-> filename],
                   IF filename \notin DOMAIN cache_dir THEN Raise(FileNotFoundError)
                   ELSE load_file(cache_dir[filename]))
    /\ UNCHANGED <<config, others, trained_on, fitted_state, outside>>

\* The keys of fetch_bowl_game_data's dictionary, in the order their data
\* sets are fetched for each year.
Datasets ==
    <<"games", "team_stats", "advanced_stats", "adjusted_team_metrics", "betting_lines",
      "sp_ratings">>

\* The method of CFBDClient that fetches each data set.
GetterOf(key) ==
    CASE key = "games" -> "get_games"
      [] key = "team_stats" -> "get_team_stats"
      [] key = "advanced_stats" -> "get_advanced_team_stats"
      [] key = "adjusted_team_metrics" -> "get_adjusted_team_season_stats"
      [] key = "betting_lines" -> "get_betting_lines"
      [] key = "sp_ratings" -> "get_sp_ratings"

\* Every data set fetched outside a try block.
Unguarded_all ==
    {"games", "team_stats", "advanced_stats", "adjusted_team_metrics", "betting_lines",
     "sp_ratings"}

\* The data sets fetch_bowl_game_data fetches outside any try block.
Unguarded == {"games", "team_stats"}

\* What the cfbd library answers for a data set and a year when the call
\* succeeds: None, or the fields and the items of a list of models.
Library(key, year) ==
    CASE key = "games" ->
            Some([fields |-> <<"id", "home_team">>,
                  items |-> IF year = 2023 THEN <<<<Cell("int", "401"), Cell("str", "Alabama")>>>>
                            ELSE <<<<Cell("int", "402"), Cell("str", "Texas")>>>>])
      [] key = "team_stats" ->
            Some([fields |-> <<"team", "games">>,
                  items |-> <<<<Cell("str", IF year = 2023 THEN "Alabama" ELSE "Texas"),
                                Cell("int", "7")>>>>])
      [] key = "advanced_stats" -> Some([fields |-> <<>>, items |-> <<>>])
      [] key = "adjusted_team_metrics" ->
            IF year = 2023
                THEN Some([fields |-> <<"team", "epa">>,
                           items |-> <<<<Cell("str", "Alabama"), NaNCell>>>>])
                ELSE Some([fields |-> <<>>, items |-> <<>>])
      [] key = "betting_lines" ->
            IF year = 2023
                THEN Some([fields |-> <<"id", "lines">>,
                           items |-> <<<<Cell("int", "401"), Cell("list", "[{'spread': -3}]")>>>>])
                ELSE None
      [] key = "sp_ratings" ->
            Some([fields |-> <<"team", "rating">>,
                  items |-> <<<<Cell("str", IF year = 2023 THEN "Alabama" ELSE "Texas"),
                                Cell("int", "7")>>>>])

\* CFBDClient._to_dataframe(response)
_to_dataframe(response) ==
    IF response = None THEN DataFrame(<<>>, <<>>)
    ELSE IF response[1].items = <<>> THEN DataFrame(<<>>, <<>>)
    ELSE DataFrame(response[1].fields, response[1].items)

\* get_games, get_team_stats, ... (year): the library's answer as a table,
\* or RuntimeError for the library's ApiException.
Getter(key, year, fails) ==
    IF fails THEN Raise("RuntimeError: CFBD " \o GetterOf(key) \o " failed")
    ELSE Ok(_to_dataframe(Library(key, year)))

\* The columns of the tables ts, in order of first appearance.
RECURSIVE UnionColumnsTo(_, _)
UnionColumnsTo(ts, n) ==
    IF n = 0 THEN <<>>
    ELSE LET cols == UnionColumnsTo(ts, n - 1)
         IN  cols \o SelectSeq(ts[n].columns, LAMBDA c : \A k \in 1..Len(cols) : cols[k] # c)

\* Row r of table t laid out on columns cols, NaN where t has no such column.
Reindexed(t, r, cols) ==
    Array([j \in 1..Len(cols) |->
        IF \E k \in 1..NCols(t) : t.columns[k] = cols[j]
        THEN t.rows[r][CHOOSE k \in 1..NCols(t) : t.columns[k] = cols[j]]
        ELSE NaNCell])

RECURSIVE ConcatRowsTo(_, _, _)
ConcatRowsTo(ts, n, cols) ==
    IF n = 0 THEN <<>>
    ELSE ConcatRowsTo(ts, n - 1, cols) \o
         Array([r \in 1..NRows(ts[n]) |-> Reindexed(ts[n], r, cols)])

\* pd.concat(values, ignore_index=True)
Concat(ts) ==
    LET cols == UnionColumnsTo(ts, Len(ts))
    IN  DataFrame(cols, ConcatRowsTo(ts, Len(ts), cols))

\* DataFrame.empty
Empty(df) == NRows(df) = 0 \/ NCols(df) = 0

\* The loop of fetch_bowl_game_data after k getter calls: the tables
\* collected per key, the calls made, and the error that ended it. `failing`
\* holds the <<position of the year, key>> of the calls the service fails.
RECURSIVE FetchedTo(_, _, _)
FetchedTo(years, failing, k) ==
    IF k = 0
    THEN [all_data |-> [key \in {Datasets[i] : i \in 1..6} |-> <<>>], calls |-> <<>>, error |-> ""]
    ELSE LET s == FetchedTo(years, failing, k - 1)
             p == ((k - 1) \div 6) + 1
             key == Datasets[((k - 1) % 6) + 1]
             got == Getter(key, years[p], <<p, key>> \in failing)
             call == [getter |-> GetterOf(key), year |-> years[p], status |-> got.status]
         IN  IF s.error # "" THEN s
             ELSE IF got.status = "ok"
                  THEN [s EXCEPT !.all_data[key] = Append(@, got.value[1]),
                                 !.calls = Append(@, call)]
             ELSE IF key \in Unguarded
                  THEN [s EXCEPT !.calls = Append(@, call), !.error = got.err]
             ELSE [s EXCEPT !.calls = Append(@, call)]

\* The combined_data dictionary of the tables collected.
Combined(all_data) ==
    [key \in DOMAIN all_data |->
        IF all_data[key] # <<>> THEN Concat(all_data[key]) ELSE DataFrame(<<>>, <<>>)]

\* The cache directory after the save loop over combined: the keys in order,
\* a key with an empty table passed over.
RECURSIVE SavedTo(_, _, _)
SavedTo(dir, combined, n) ==
    IF n = 0 THEN dir
    ELSE LET d == SavedTo(dir, combined, n - 1)
             key == Datasets[n]
         IN  IF Empty(combined[key]) THEN d ELSE WriteFile(d, key \o ".csv", combined[key])

\* CFBDClient.fetch_bowl_game_data(years, save_cache)
fetch_bowl_game_data(years, save_cache, failing) ==
    LET s == FetchedTo(years, failing, 6 * Len(years))
        combined == Combined(s.all_data)
        args == [years |-> years, save_cache |-> save_cache]
    IN  /\ Callable("CFBDClient")
        /\ sent' = s.calls
        /\ IF s.error # ""
           THEN /\ ret' = Call("fetch_bowl_game_data", args, Raise(s.error))
                /\ UNCHANGED cache_dir
           ELSE /\ ret' = Call("fetch_bowl_game_data", args, Ok(combined))
                /\ cache_dir' = IF save_cache THEN SavedTo(cache_dir, combined, 6) ELSE cache_dir
        /\ UNCHANGED <<config, others, trained_on, fitted_state, API_KEY>>

\* ------------------------------------------- specification of CFBDClient

\* Most calls of one fetch_bowl_game_data that the service fails.
MaxFailures == 2

YearLists == {<<>>, <<2023>>, <<2024, 2023>>}

\* The getter calls of a fetch over n years, by position of the year and key.
Slots(n) == (1..n) \X {Datasets[i] : i \in 1..6}

\* The file names and the tables the caller caches on its own.
CacheFiles == {"picks.csv", "sp_ratings.csv"}

CacheTables ==
    {DataFrame(<<>>, <<>>),
     DataFrame(<<"id", "team">>, <<<<Cell("int", "7"), Cell("str", "Alabama")>>>>),
     DataFrame(<<"code">>, <<<<Cell("str", "007")>>>>)}

\* CFBDClient(cache_dir=...) is constructed on an empty directory.
ClientInit ==
    /\ kind = "CFBDClient"
    /\ normalize = FALSE
    /\ hierarchical = FALSE
    /\ model = None
    /\ scaler = None
    /\ feature_names = None
    /\ trace = None
    /\ group_var = None
    /\ is_fitted = FALSE
    /\ ret = Idle
    /\ others = <<>>
    /\ trained_on = None
    /\ NoData

SaveToCache ==
    Callable("CFBDClient") /\ \E data \in CacheTables, filename \in CacheFiles : save_to_cache(data, filename)

LoadFromCache ==
    Callable("CFBDClient") /\ \E filename \in CacheFiles \cup {"betting_lines.csv"} :
        load_from_cache(filename)

FetchBowlGameData ==
    /\ Callable("CFBDClient")
    /\ \E years \in YearLists, save_cache \in BOOLEAN :
        \E failing \in {S \in SUBSET Slots(Len(years)) : Cardinality(S) <= MaxFailures} :
            fetch_bowl_game_data(years, save_cache, failing)

\* The caller takes the outcome of a client method; the getter calls of the
\* next one are counted afresh.
ClientReturn ==
    /\ ret # Idle
    /\ ret' = Idle
    /\ sent' = <<>>
    /\ UNCHANGED <<config, others, trained_on, fitted_state, API_KEY, cache_dir>>

ClientNext ==
    \/ SaveToCache
    \/ LoadFromCache
    \/ FetchBowlGameData
    \/ ClientReturn

ClientSpec == ClientInit /\ [][ClientNext]_vars

\* ----------------------------------------------- properties of CFBDClient

\* A fetch_bowl_game_data call runs in this step.
FetchStep == ret = Idle /\ ret'.op = "fetch_bowl_game_data"

\* The getter calls the call made, and those among them that failed on a
\* data set fetched outside a try block: games or team stats.
AbortingCalls(calls) ==
    {i \in 1..Len(calls) : calls[i].status = "error" /\ calls[i].getter \in {"get_games", "get_team_stats"}}

\* The table a key must hold: the tables of the key's getter calls that
\* succeeded, in the order of the calls, combined; empty when there is none.
Collected(calls, key) ==
    LET good == SelectSeq(calls, LAMBDA c : c.getter = GetterOf(key) /\ c.status = "ok")
    IN  IF good = <<>> THEN DataFrame(<<>>, <<>>)
        ELSE Concat(Array([i \in 1..Len(good) |-> _to_dataframe(Library(key, good[i].year))]))

\* C26: fetch_bowl_game_data calls the getters year by year in the order of
\* `years`; a failure of the games or team-stats getter ends the call with
\* an error, nothing returned and nothing cached; a failure of any other
\* getter is swallowed, that data set being skipped for that year while all
\* remaining getters and years still run; a call that returns returns all
\* six keys, a key that collected nothing holding an empty table.
C26_FetchAbortsOrSkips ==
    [][FetchStep =>
        LET calls == sent'
            years == ret'.args.years
        IN  /\ \A i \in 1..Len(calls) :
                  /\ calls[i].getter = GetterOf(Datasets[((i - 1) % 6) + 1])
                  /\ calls[i].year = years[((i - 1) \div 6) + 1]
            /\ IF AbortingCalls(calls) # {}
               THEN /\ AbortingCalls(calls) = {Len(calls)}
                    /\ ret'.status = "error"
                    /\ ret'.value = None
                    /\ cache_dir' = cache_dir
               ELSE /\ Len(calls) = 6 * Len(years)
                    /\ ret'.status = "ok"
                    /\ DOMAIN ret'.value[1] = {Datasets[i] : i \in 1..6}
                    /\ \A key \in DOMAIN ret'.value[1] :
                          ret'.value[1][key] = Collected(calls, key)]_vars

\* C26's case: over two years the betting-lines getter failed for both; the
\* getters after it still ran, and the call returned both years' games and
\* ratings and an empty betting-lines table.
C26_Witness ==
    /\ Returned("fetch_bowl_game_data")
    /\ ret.args.years = <<2024, 2023>>
    /\ Len(sent) = 12
    /\ sent[5].status = "error"
    /\ sent[11].status = "error"
    /\ NRows(ret.value[1]["games"]) = 2
    /\ NRows(ret.value[1]["sp_ratings"]) = 2
    /\ ret.value[1]["betting_lines"] = DataFrame(<<>>, <<>>)

\* A load_from_cache call runs in this step.
LoadStep == ret = Idle /\ ret'.op = "load_from_cache"

\* In a load step: the file is missing and FileNotFoundError is raised, or
\* `table` of the file found is returned.
LoadReturns(table(_)) ==
    IF ret'.args.filename \in DOMAIN cache_dir
    THEN ret'.status = "ok" /\ ret'.value = Some(table(cache_dir[ret'.args.filename]))
    ELSE ret'.status = "error" /\ ret'.err = FileNotFoundError /\ ret'.value = None

\* The table a file was most recently saved from.
SavedTable(file) == file.saved

\* File f is after the step what it was before it.
FileUntouched(f) ==
    /\ (f \in DOMAIN cache_dir') <=> (f \in DOMAIN cache_dir)
    /\ f \in DOMAIN cache_dir => cache_dir'[f] = cache_dir[f]

\* In a fetch step: with save_cache=True a call that returns has written
\* each key's table to <key>.csv when the table is not empty and has left
\* every other file alone; any other call has written nothing.
FetchWritesNonEmptyKeys ==
    IF ret'.status = "ok" /\ ret'.args.save_cache
    THEN /\ \A i \in 1..6 :
               LET f == Datasets[i] \o ".csv"
               IN  IF Empty(ret'.value[1][Datasets[i]]) THEN FileUntouched(f)
                   ELSE f \in DOMAIN cache_dir' /\ cache_dir'[f].saved = ret'.value[1][Datasets[i]]
         /\ \A f \in (DOMAIN cache_dir \cup DOMAIN cache_dir') \ {Datasets[i] \o ".csv" : i \in 1..6} :
               FileUntouched(f)
    ELSE cache_dir' = cache_dir

\* C27: after any sequence of saves, load_from_cache(f) returns the table
\* most recently saved under f, and raises FileNotFoundError when nothing
\* was saved under f; fetch_bowl_game_data with save_cache=True writes a
\* cache file exactly for the keys whose combined table is not empty, and
\* with save_cache=False writes none.
C27_CacheRoundTrip ==
    [][/\ LoadStep => LoadReturns(SavedTable)
       /\ FetchStep => FetchWritesNonEmptyKeys]_vars

\* What holds of the cache: load_from_cache returns what pd.read_csv makes
\* of the CSV text most recently written under f, or raises what it raises,
\* and the fetch writes as C27 says.
CacheReadsBackCsv ==
    [][/\ LoadStep =>
             IF ret'.args.filename \in DOMAIN cache_dir
             THEN ret' = Call("load_from_cache", ret'.args, read_csv(cache_dir[ret'.args.filename].csv))
             ELSE ret'.status = "error" /\ ret'.err = FileNotFoundError
       /\ FetchStep => FetchWritesNonEmptyKeys]_vars

\* A table whose only cell is the text 007 was saved and loaded: the cell
\* came back as the integer 7.
CodeReadBackAsInteger ==
    /\ Returned("load_from_cache")
    /\ ret.args.filename \in DOMAIN cache_dir
    /\ cache_dir[ret.args.filename].saved = DataFrame(<<"code">>, <<<<Cell("str", "007")>>>>)
    /\ ret.value[1] = DataFrame(<<"code">>, <<<<Cell("int", "7")>>>>)

\* The betting lines a fetch cached were loaded: the nested lines came back
\* as text.
LinesReadBackAsText ==
    /\ Returned("load_from_cache")
    /\ ret.args.filename = "betting_lines.csv"
    /\ cache_dir["betting_lines.csv"].saved.rows[1][2].type = "list"
    /\ ret.value[1].rows[1][2].type = "str"

\* --------------------------- properties of the fitted state of the models

\* A cross_validate call runs in this step on a fitted point model that
\* normalizes.
CrossValidateStep ==
    /\ ret = Idle
    /\ kind = "linear"
    /\ normalize
    /\ is_fitted
    /\ ret'.op = "cross_validate"

\* What predict returns for X on a fitted point model that normalizes and
\* holds the scaler sc and the estimator mdl.
PredictsWith(sc, mdl, X) ==
    IF ~ScalerAccepts(sc[1], X) THEN Raise(FeatureNamesError)
    ELSE LET X_scaled == ScalerTransform(sc[1], X)
         IN  IF ~EstimatorAccepts(mdl, X_scaled) THEN Raise(FeatureCountError)
             ELSE Ok(EstimatorPredict(mdl, X_scaled))

\* C28: cross_validate on a fitted point model with normalization leaves
\* the fitted state as it is, so predict returns for every table after the
\* call what it returned before it.
C28_CrossValidateKeepsFittedState ==
    [][CrossValidateStep =>
          /\ fitted_state' = fitted_state
          /\ \A X \in PredictTables \cup TrainTables :
                PredictsWith(scaler', model', X) = LinearPredict(X)]_vars

\* What holds of cross_validate: everything of the fitted state but the
\* scaler is left as it is.
CrossValidateKeepsAllButScaler ==
    [][CrossValidateStep =>
          <<feature_names, model, trace, group_var, is_fitted>>' =
          <<feature_names, model, trace, group_var, is_fitted>>]_vars

\* After a cross_validate on other data the scaler no longer holds the mean
\* and scale of the table the model was fitted on.
ScalerRefittedByCrossValidate ==
    /\ kind = "linear"
    /\ normalize
    /\ is_fitted
    /\ ret.op = "cross_validate"
    /\ scaler = Some(ScalerFit(ret.args.X))
    /\ scaler # Some(ScalerFit(trained_on[1].X))

\* A fit call runs in this step.
FitStep == ret = Idle /\ ret'.op = "fit"

\* After the step, feature_names, the standardization parameters and the
\* fitted coefficients (for the Bayesian model: the graph and its posterior)
\* all stem from the arguments of the fit call of this step.
AllFromThisFit ==
    LET X == ret'.args.X
        y == ret'.args.y
    IN  /\ is_fitted'
        /\ feature_names' = Some(X.columns)
        /\ kind = "linear" =>
              /\ normalize => scaler' = Some(ScalerFit(X))
              /\ model' = EstimatorFit(IF normalize THEN ScalerTransform(ScalerFit(X), X)
                                       ELSE Values(X), AsFloats(y))
        /\ kind = "bayesian" =>
              /\ model'[1].X = X.rows
              /\ model'[1].y = y
              /\ TraceFits(model'[1], trace'[1])

\* C29: over any sequence of fit calls, failed ones included, a fitted
\* model's feature_names, standardization parameters and coefficients stem
\* from one and the same completed fit call: a fit that completes sets all
\* of them from its own arguments, and a fit that fails leaves the state of
\* a fitted model exactly as it was.
C29_FittedStateFromOneFit ==
    [][FitStep =>
          IF ret'.status = "ok" THEN AllFromThisFit
          ELSE is_fitted => fitted_state' = fitted_state]_vars

\* What holds of fit: a fit that completes sets all of the fitted state from
\* its own arguments, and a fit that fails leaves is_fitted and, in the
\* point model, the coefficients as they were.
CompletedFitSetsAll ==
    [][FitStep =>
          IF ret'.status = "ok" THEN AllFromThisFit
          ELSE is_fitted' = is_fitted /\ (kind = "linear" => model' = model)]_vars

\* A fit failed on a fitted point model: the model is still fitted from the
\* earlier call, but its feature_names and scaler are those of the failed one.
FailedFitLeftMixedState ==
    /\ kind = "linear"
    /\ normalize
    /\ is_fitted
    /\ ret.op = "fit"
    /\ ret.status = "error"
    /\ feature_names = Some(ret.args.X.columns)
    /\ scaler = Some(ScalerFit(ret.args.X))
    /\ scaler # Some(ScalerFit(trained_on[1].X))
    /\ model = EstimatorFit(ScalerTransform(ScalerFit(trained_on[1].X), trained_on[1].X),
                            AsFloats(trained_on[1].y))

====
